---- MODULE Spec2Model ----
(***************************************************************************)
(* Tool-result cache, pre-warming, the quick/detailed two-phase response   *)
(* of QuickResponseAgent and the cached ComponentGenerator of the          *)
(* mc2.agentic DeFi assistant.                                             *)
(*                                                                         *)
(* Strings are sequences of one-character strings (a few fixed tokens such *)
(* as a tool name stand for their characters), so that lower-casing,       *)
(* whitespace collapsing, truncation and concatenation are computed.       *)
(***************************************************************************)
EXTENDS Integers, Sequences, FiniteSets, TLC

\* ------------------------------------------------------------------ bounds
\* number of clock advances in one behaviour
MaxTicks == 3
\* number of clock advances while chat messages arrive concurrently
MaxArrivalTicks == 1

\* ------------------------------------------------------- program constants
\* private readonly CACHE_TTL = 5 * 60 * 1000
CACHE_TTL == 5 * 60 * 1000

\* JavaScript null / undefined
Null == "null"
Undefined == "undefined"

\* ------------------------------------------------------------------ strings
\* String.prototype.toLowerCase on one character
toLowerCaseChar(c) ==
    CASE c = "A" -> "a"
      [] c = "T" -> "t"
      [] c = "P" -> "p"
      [] OTHER -> c

\* String.prototype.toLowerCase
toLowerCase(s) == [i \in 1..Len(s) |-> toLowerCaseChar(s[i])]

\* the regular expression class \s
IsWhitespace(c) == c \in {" ", "\t"}

\* String.prototype.replace(/\s+/g, '_'): every maximal run of whitespace
\* becomes one underscore
RECURSIVE replaceWhitespace(_)
replaceWhitespace(s) ==
    IF s = <<>> THEN <<>>
    ELSE IF IsWhitespace(Head(s))
         THEN IF Len(s) > 1 /\ IsWhitespace(s[2])
              THEN replaceWhitespace(Tail(s))
              ELSE <<"_">> \o replaceWhitespace(Tail(s))
         ELSE <<Head(s)>> \o replaceWhitespace(Tail(s))

\* String.prototype.includes
includes(s, sub) ==
    \E i \in 1..(Len(s) - Len(sub) + 1) : SubSeq(s, i, i + Len(sub) - 1) = sub

\* JSON.stringify of a string's characters: the tab is escaped
RECURSIVE jsonEscape(_)
jsonEscape(s) ==
    IF s = <<>> THEN <<>>
    ELSE (IF Head(s) = "\t" THEN <<"\\", "t">> ELSE <<Head(s)>>)
         \o jsonEscape(Tail(s))

\* JSON.stringify(params) for the parameter objects the program builds:
\* { query }, { address }
jsonStringify(params) ==
    IF params.kind = "query"
    THEN <<"{", "\"", "query", "\"", ":", "\"">> \o jsonEscape(params.value) \o <<"\"", "}">>
    ELSE <<"{", "\"", "address", "\"", ":", "\"">> \o jsonEscape(params.value) \o <<"\"", "}">>

\* the params argument left out (undefined)
NoParams == [kind |-> "undefined", value |-> <<>>]
QueryParams(q) == [kind |-> "query", value |-> q]
AddressParams(a) == [kind |-> "address", value |-> a]

\* ------------------------------------------------------------ sample inputs
QTokenA == <<"T", "o", "k", "e", "n", " ", "A">>
QTokenA2 == <<"t", "o", "k", "e", "n", " ", "\t", "a">>
QAsset == <<"m", "y", " ", "a", "s", "s", "e", "t">>
QHi == <<"h", "i">>
QTokenAsset == <<"t", "o", "k", "e", "n", " ", "a", "s", "s", "e", "t">>

\* tool results: null, a falsy primitive, and two data values
Values == {Null, "v1", "v2"}

\* the (toolName, query, params) triples the cache interface is driven with:
\* the first two collide on one key after normalisation, the third differs
\* in params, the fourth in the tool
CacheArgs ==
    { [toolName |-> <<"searchTokens">>, query |-> QTokenA, params |-> NoParams],
      [toolName |-> <<"searchTokens">>, query |-> QTokenA2, params |-> NoParams],
      [toolName |-> <<"searchDigitalAsset">>, query |-> QAsset, params |-> QueryParams(QAsset)] }

VARIABLES
    now,      \* Date.now(), in milliseconds
    ticks,    \* how often the clock advanced
    cache,    \* ToolCacheManager.cache: key -> CachedToolResult
    last,     \* the last call on the cache interface and what it returned
    pc,               \* where the handling of each inbound message stands
    req,              \* onMessage's locals: content, requestId, startTime
    promises,         \* the preWarmPromises map each message's preWarmToolCalls built
    toolOutcome,      \* how each pre-warm tool call ended
    pendingRequests,  \* QuickResponseAgent.pendingRequests
    awaiting,         \* whose preWarmPromises generateDetailedResponse awaits
    first,            \* the first turn's result while the retry turn runs
    turnsRun,         \* processMessageWithUI calls made for each message
    llm,              \* how each message's LLM calls ended and how many tool
                      \* calls the full turns returned
    sent,             \* what connection.send has transmitted, in order
    connected,        \* whether the connection is open: send throws on a
                      \* closed one
    lookup,           \* for each message, whose entry its pendingRequests.set
                      \* replaced, whether that was before its owner's
                      \* pendingRequests.get, and what its own get returned
    componentCache,   \* ComponentGenerator.componentCache
    gen,              \* the generateStyledComponent calls: their arguments,
                      \* where each stands and what it returned
    returned,         \* the LLM-generated components calls have returned
    decision,         \* the last shouldGenerateUI call: its arguments, which
                      \* version of the method ran, what it returned
    evaluation,       \* the ResponseEvaluator.evaluateResponse call: where it
                      \* stands, the feedback stats it read, what it returned
    pm,               \* the AIProcessor.processMessage calls: where each
                      \* stands, the streamText calls it made, its result
    mcp,              \* Mc2fiMCPAgent: its state, the state each manager was
                      \* constructed on, the last trackToolUsage call
    task_prompts,     \* the rows of table task_prompts, in insertion order
    upd               \* the updateTaskPrompt calls: where each stands, its
                      \* arguments, the version it read; the last
                      \* getTaskPrompt call

cacheVars == <<cache, last>>
agentVars == <<pc, req, promises, toolOutcome, pendingRequests, awaiting, first,
               turnsRun, llm, sent, connected, lookup>>
compVars == <<componentCache, gen, returned>>
storeVars == <<mcp, task_prompts, upd>>
procVars == <<pm, decision, evaluation, storeVars>>
vars == <<now, ticks, cache, last, pc, req, promises, toolOutcome, pendingRequests,
          awaiting, first, turnsRun, llm, sent, connected, lookup, componentCache, gen,
          returned, pm, decision, evaluation, mcp, task_prompts, upd>>

\* ------------------------------------------------------- ToolCacheManager
\* generateCacheKey(toolName, query, params)
generateCacheKey(toolName, query, params) ==
    LET paramsStr == IF params.kind = "undefined" THEN <<>> ELSE jsonStringify(params)
    IN toolName \o <<"_">> \o replaceWhitespace(toLowerCase(query)) \o <<"_">> \o paramsStr

\* the hit test with the comparison turned round
isFresh_Inverted(entry, time) == (time - entry.timestamp) > CACHE_TTL

\* the hit test of getCachedResult
isFresh(entry, time) == (time - entry.timestamp) < CACHE_TTL

\* what getCachedResult returns
getCachedResultValue(c, toolName, query, params, time) ==
    LET cacheKey == generateCacheKey(toolName, query, params)
    IN IF cacheKey \in DOMAIN c /\ isFresh(c[cacheKey], time)
       THEN c[cacheKey].result
       ELSE Null

\* a lookup that renews the timestamp of the entry it returns
getCachedResultCache_Refresh(c, toolName, query, params, time) ==
    LET cacheKey == generateCacheKey(toolName, query, params)
    IN IF cacheKey \in DOMAIN c
       THEN IF (time - c[cacheKey].timestamp) < CACHE_TTL
            THEN [c EXCEPT ![cacheKey].timestamp = time]
            ELSE [k \in DOMAIN c \ {cacheKey} |-> c[k]]
       ELSE c

\* the cache after getCachedResult: an expired entry is deleted
getCachedResultCache(c, toolName, query, params, time) ==
    LET cacheKey == generateCacheKey(toolName, query, params)
    IN IF cacheKey \in DOMAIN c /\ ~isFresh(c[cacheKey], time)
       THEN [k \in DOMAIN c \ {cacheKey} |-> c[k]]
       ELSE c

\* a set that keeps an entry the key already has
setCachedResultCache_KeepExisting(c, toolName, query, result, params, time) ==
    LET cacheKey == generateCacheKey(toolName, query, params)
        entry == [result |-> result, timestamp |-> time,
                  query |-> query, toolName |-> toolName]
    IN [k \in DOMAIN c \cup {cacheKey} |-> IF k \in DOMAIN c THEN c[k] ELSE entry]

\* the cache after setCachedResult
setCachedResultCache(c, toolName, query, result, params, time) ==
    LET cacheKey == generateCacheKey(toolName, query, params)
        entry == [result |-> result, timestamp |-> time,
                  query |-> query, toolName |-> toolName]
    IN [k \in DOMAIN c \cup {cacheKey} |-> IF k = cacheKey THEN entry ELSE c[k]]

\* the expiry test that also takes the entries exactly TTL old
isExpired_AtTtl(entry, time) == time - entry.timestamp >= CACHE_TTL

\* the expiry test of cleanup
isExpired(entry, time) == time - entry.timestamp > CACHE_TTL

\* the cache after cleanup
cleanupCache(c, time) == [k \in {x \in DOMAIN c : ~isExpired(c[x], time)} |-> c[k]]

\* ------------------------------------------------------------------ actions
\* the wall clock advances by a millisecond or by just under the TTL, so that
\* ages of TTL - 1, TTL and TTL + 1 all occur
TickSteps == {1, CACHE_TTL - 1}

Tick(d) ==
    /\ ticks < MaxTicks
    /\ now' = now + d
    /\ ticks' = ticks + 1
    /\ UNCHANGED <<cache, last>>
    /\ UNCHANGED agentVars
    /\ UNCHANGED compVars
    /\ UNCHANGED procVars

\* what the cache held under the key of a call before the call
NoEntry == [present |-> FALSE, result |-> Undefined, timestamp |-> 0]
EntryBefore(c, a) ==
    LET cacheKey == generateCacheKey(a.toolName, a.query, a.params)
    IN IF cacheKey \in DOMAIN c
       THEN [present |-> TRUE, result |-> c[cacheKey].result,
             timestamp |-> c[cacheKey].timestamp]
       ELSE NoEntry

GetCachedResult(a) ==
    /\ cache' = getCachedResultCache(cache, a.toolName, a.query, a.params, now)
    /\ last' = [op |-> "get", args |-> a, time |-> now,
                result |-> getCachedResultValue(cache, a.toolName, a.query, a.params, now),
                pre |-> EntryBefore(cache, a), size |-> Cardinality(DOMAIN cache)]
    /\ UNCHANGED <<now, ticks>>
    /\ UNCHANGED agentVars
    /\ UNCHANGED compVars
    /\ UNCHANGED procVars

SetCachedResult(a, v) ==
    /\ cache' = setCachedResultCache(cache, a.toolName, a.query, v, a.params, now)
    /\ last' = [op |-> "set", args |-> a, time |-> now, result |-> v,
                pre |-> EntryBefore(cache, a), size |-> Cardinality(DOMAIN cache)]
    /\ UNCHANGED <<now, ticks>>
    /\ UNCHANGED agentVars
    /\ UNCHANGED compVars
    /\ UNCHANGED procVars

NoArgs == [toolName |-> <<>>, query |-> <<>>, params |-> NoParams]

Cleanup ==
    /\ cache' = cleanupCache(cache, now)
    /\ last' = [op |-> "cleanup", args |-> NoArgs, time |-> now, result |-> Undefined,
                pre |-> NoEntry, size |-> Cardinality(DOMAIN cache)]
    /\ UNCHANGED <<now, ticks>>
    /\ UNCHANGED agentVars
    /\ UNCHANGED compVars
    /\ UNCHANGED procVars

\* ------------------------------------------------------ inbound messages
\* number of inbound messages handled concurrently on one agent
NumMsgs == 2
Msgs == 1..NumMsgs

\* the user messages of the chat requests
AgentQueries == {QTokenA, QHi}

\* what arrives in onMessage: a chat message, a chat message without content,
\* a JSON message of another type, a string that is not JSON, a non-string
Inbound ==
    {[kind |-> "chat", content |-> q] : q \in AgentQueries \cup {QTokenAsset}}
    \cup {[kind |-> k, content |-> <<>>] :
            k \in {"chatNoContent", "other", "invalidJson", "binary"}}

\* the fixed strings of QuickResponseAgent and UIAwareMc2fiAgent
QuickFallbackText == "Great question! I'm gathering real-time data for you and will provide detailed insights shortly."
OnMessageErrorText == "Sorry, I encountered an error processing your request."
DetailedErrorText == "I encountered an issue generating the detailed response. Please try again."
ProcessErrorText == "I'm sorry, there was an error processing your message."
NoResponseText == "I'm sorry, I couldn't generate a response."

\* ------------------------------------------------------------- pre-warming
Kw_token == <<"t", "o", "k", "e", "n">>
Kw_search == <<"s", "e", "a", "r", "c", "h">>
Kw_portfolio == <<"p", "o", "r", "t", "f", "o", "l", "i", "o">>
Kw_address == <<"a", "d", "d", "r", "e", "s", "s">>
Kw_digital == <<"d", "i", "g", "i", "t", "a", "l">>
Kw_asset == <<"a", "s", "s", "e", "t">>

PreWarmTools == {"searchTokens", "searchAddress", "searchDigitalAsset"}

\* the plan with the "search" keyword left out of the first test
preWarmPlan_TokenOnly(query) ==
    LET queryLower == toLowerCase(query)
    IN (IF includes(queryLower, Kw_token)
        THEN <<[tool |-> "searchTokens", params |-> QueryParams(queryLower)]>>
        ELSE <<>>)
       \o
       (IF includes(queryLower, Kw_portfolio) \/ includes(queryLower, Kw_address)
        THEN <<[tool |-> "searchAddress", params |-> AddressParams(<<"0", "x">>)]>>
        ELSE <<>>)
       \o
       (IF includes(queryLower, Kw_digital) \/ includes(queryLower, Kw_asset)
        THEN <<[tool |-> "searchDigitalAsset", params |-> QueryParams(query)]>>
        ELSE <<>>)

\* preWarmToolCalls: the executeToolWithCache calls it makes for a query, in
\* order, each with the params it passes
preWarmPlan(query) ==
    LET queryLower == toLowerCase(query)
    IN (IF includes(queryLower, Kw_token) \/ includes(queryLower, Kw_search)
        THEN <<[tool |-> "searchTokens", params |-> QueryParams(queryLower)]>>
        ELSE <<>>)
       \o
       (IF includes(queryLower, Kw_portfolio) \/ includes(queryLower, Kw_address)
        THEN <<[tool |-> "searchAddress", params |-> AddressParams(<<"0", "x">>)]>>
        ELSE <<>>)
       \o
       (IF includes(queryLower, Kw_digital) \/ includes(queryLower, Kw_asset)
        THEN <<[tool |-> "searchDigitalAsset", params |-> QueryParams(query)]>>
        ELSE <<>>)

\* the params preWarmToolCalls passes for a tool it pre-warms
preWarmParams(query, tool) ==
    LET plan == preWarmPlan(query)
    IN plan[CHOOSE i \in 1..Len(plan) : plan[i].tool = tool].params

NoPromises == [t \in PreWarmTools |-> "absent"]

\* executeToolWithCache up to the tool call, for each planned call in turn:
\* a hit resolves the promise with the cached result, a miss (null) leaves the
\* tool call pending; an expired entry is deleted by the lookup
RECURSIVE startPreWarm(_, _, _, _, _)
startPreWarm(plan, query, c, proms, time) ==
    IF plan = <<>> THEN [cache |-> c, promises |-> proms]
    ELSE LET call == Head(plan)
             toolName == <<call.tool>>
             cached == getCachedResultValue(c, toolName, query, call.params, time)
             c2 == getCachedResultCache(c, toolName, query, call.params, time)
         IN startPreWarm(Tail(plan), query, c2,
                [proms EXCEPT ![call.tool] = IF cached # Null THEN cached ELSE "pending"],
                time)

\* how a pre-warm tool call ends: with null, with data, or rejecting
ToolOutcomes == {Null, "v1", "reject"}

\* the catch of executeToolWithCache with the error thrown on
executeToolCatch_Rethrow == "rejected"

\* the catch of executeToolWithCache: the promise resolves to null
executeToolCatch == Null

\* executeToolWithCache after the tool call settled: a result is cached and
\* returned, a rejection goes to the catch and nothing is cached
settleToolCall(c, tool, query, params, outcome, time) ==
    IF outcome = "reject"
    THEN [cache |-> c, promise |-> executeToolCatch]
    ELSE [cache |-> setCachedResultCache(c, <<tool>>, query, outcome, params, time),
          promise |-> outcome]

\* --------------------------------------------------------------- LLM turns
\* what the streamText calls of one AIProcessor.processMessage do: the main
\* call throws or ends with a text, tool calls and tool results; synth is the
\* synthesis follow-up call's text, or "throw"
LlmOutcomes ==
    { [threw |-> TRUE, text |-> "", toolCalls |-> 0, toolResults |-> <<>>, synth |-> ""],
      [threw |-> FALSE, text |-> "answer", toolCalls |-> 0, toolResults |-> <<>>, synth |-> ""],
      [threw |-> FALSE, text |-> "answer", toolCalls |-> 1,
       toolResults |-> <<[toolName |-> "searchTokens", result |-> Null]>>, synth |-> ""],
      [threw |-> FALSE, text |-> "answer", toolCalls |-> 1,
       toolResults |-> <<[toolName |-> "searchTokens", result |-> "v1"]>>, synth |-> ""] }

\* more outcomes of a full turn: a tool call without a result, results of
\* which some or all are falsy ("" stands for a falsy primitive), an empty
\* array (truthy in JavaScript), a second answer, and blank texts with and
\* without tool calls, followed by a synthesis call that answers, ends
\* blank or throws
TurnOutcomes ==
    LlmOutcomes \cup
    { [threw |-> FALSE, text |-> "answer2", toolCalls |-> 0, toolResults |-> <<>>, synth |-> ""],
      [threw |-> FALSE, text |-> "answer", toolCalls |-> 1, toolResults |-> <<>>, synth |-> ""],
      [threw |-> FALSE, text |-> "answer", toolCalls |-> 1,
       toolResults |-> <<[toolName |-> "searchTokens", result |-> ""]>>, synth |-> ""],
      [threw |-> FALSE, text |-> "answer2", toolCalls |-> 1,
       toolResults |-> <<[toolName |-> "searchTokens", result |-> "[]"]>>, synth |-> ""],
      [threw |-> FALSE, text |-> "answer", toolCalls |-> 2,
       toolResults |-> <<[toolName |-> "searchTokens", result |-> Null],
                         [toolName |-> "searchAddress", result |-> "v2"]>>, synth |-> ""],
      [threw |-> FALSE, text |-> "answer", toolCalls |-> 2,
       toolResults |-> <<[toolName |-> "searchTokens", result |-> Null],
                         [toolName |-> "searchAddress", result |-> Undefined]>>, synth |-> ""],
      [threw |-> FALSE, text |-> "  ", toolCalls |-> 0, toolResults |-> <<>>, synth |-> ""],
      [threw |-> FALSE, text |-> "", toolCalls |-> 1,
       toolResults |-> <<[toolName |-> "searchTokens", result |-> "v1"]>>, synth |-> "synthesis"],
      [threw |-> FALSE, text |-> "  ", toolCalls |-> 1,
       toolResults |-> <<[toolName |-> "searchTokens", result |-> Null]>>, synth |-> ""],
      [threw |-> FALSE, text |-> "", toolCalls |-> 1,
       toolResults |-> <<[toolName |-> "searchTokens", result |-> "v1"]>>, synth |-> "throw"] }

\* the quick call has no tools
QuickLlmOutcomes == {o \in LlmOutcomes : o.toolCalls = 0}

\* !finalText || finalText.trim() === ""
IsBlank(text) == text \in {"", "  "}

Thrown == [threw |-> TRUE, text |-> "", toolCalls |-> 0, toolResults |-> <<>>]

\* the synthesis test that looks at the text only
needsSynthesis_BlankOnly(text, toolCalls) == IsBlank(text)

\* the test of processMessage for its follow-up call:
\* (!finalText || finalText.trim() === "") && toolCallsArray && toolCallsArray.length > 0
needsSynthesis(text, toolCalls) == IsBlank(text) /\ toolCalls > 0

\* AIProcessor.processMessage: the result it resolves to, or Thrown
processMessage(o) ==
    IF o.threw THEN Thrown
    ELSE IF needsSynthesis(o.text, o.toolCalls)
         THEN IF o.synth = "throw" THEN Thrown
              ELSE [threw |-> FALSE,
                    text |-> IF o.synth = "" THEN NoResponseText ELSE o.synth,
                    toolCalls |-> o.toolCalls, toolResults |-> o.toolResults]
         ELSE [threw |-> FALSE,
               text |-> IF o.text = "" THEN NoResponseText ELSE o.text,
               toolCalls |-> o.toolCalls, toolResults |-> o.toolResults]

\* uiTriggers of shouldGenerateUI
uiTriggers ==
    { <<"p", "r", "i", "c", "e">>,
      <<"t", "o", "k", "e", "n">>,
      <<"y", "i", "e", "l", "d">>,
      <<"p", "o", "r", "t", "f", "o", "l", "i", "o">>,
      <<"c", "h", "a", "r", "t">>,
      <<"d", "a", "t", "a">>,
      <<"a", "n", "a", "l", "y", "s", "i", "s">>,
      <<"c", "o", "m", "p", "a", "r", "i", "s", "o", "n">>,
      <<"s", "t", "a", "t", "s">>,
      <<"m", "e", "t", "r", "i", "c", "s">>,
      <<"v", "a", "u", "l", "t">>,
      <<"a", "p", "y">>,
      <<"a", "p", "r">>,
      <<"l", "i", "q", "u", "i", "d", "i", "t", "y">>,
      <<"v", "o", "l", "u", "m", "e">>,
      <<"m", "a", "r", "k", "e", "t", " ", "c", "a", "p">> }

\* the early return left out: a keyword in the message is enough
shouldGenerateUI_IgnoreEmpty(toolResults, userMessage) ==
    \E trigger \in uiTriggers : includes(toLowerCase(userMessage), trigger)

\* UIAwareMc2fiAgent.shouldGenerateUI, the later version of the class: no
\* tool results, no UI; otherwise the user's message alone decides
shouldGenerateUI(toolResults, userMessage) ==
    IF Len(toolResults) = 0 THEN FALSE
    ELSE LET messageLower == toLowerCase(userMessage)
         IN \E trigger \in uiTriggers : includes(messageLower, trigger)

\* what generateStyledComponent resolves to, seen from the agent
UiOutcomes == {"component"}

\* the catch of processMessageWithUI with the error thrown on
processMessageWithUICatch_Rethrow ==
    [threw |-> TRUE, text |-> "", toolCalls |-> 0, toolResults |-> <<>>,
     uiComponent |-> Undefined]

\* the catch of processMessageWithUI: a result with the apology text
processMessageWithUICatch ==
    [threw |-> FALSE, text |-> ProcessErrorText, toolCalls |-> 0, toolResults |-> <<>>,
     uiComponent |-> Undefined]

\* UIAwareMc2fiAgent.processMessageWithUI (QuickResponseAgent's override only
\* measures the time and passes errors on)
processMessageWithUI(userMessage, o, ui) ==
    LET result == processMessage(o)
    IN IF result.threw THEN processMessageWithUICatch
       ELSE [threw |-> FALSE, text |-> result.text, toolCalls |-> result.toolCalls,
             toolResults |-> result.toolResults,
             uiComponent |-> IF shouldGenerateUI(result.toolResults, userMessage)
                             THEN ui ELSE Undefined]

\* followUpPrompt of generateDetailedResponse
followUpPrompt(userMessage) ==
    <<"The previous response didn't use any tools or returned empty results. You MUST use the available tools to gather real-time ">>
    \o <<"d", "a", "t", "a">> \o <<" for this query: ", "\"">> \o userMessage
    \o <<"\"", " Available tools: - searchTokens: Search for ">> \o Kw_token
    \o <<" information ... Use at least one of these tools to provide current, specific ">>
    \o <<"d", "a", "t", "a">> \o <<".">>

\* !r.result
IsFalsy(v) == v \in {Null, Undefined, "", "0", "false"}

\* the retry test that looks at the tool calls only
needsFollowUp_ToolCallsOnly(result) == result.toolCalls = 0

\* the retry test that never asks for a retry
needsFollowUp_Never(result) == FALSE

\* the retry test of generateDetailedResponse
needsFollowUp(result) ==
    \/ result.toolCalls = 0
    \/ Len(result.toolResults) = 0
    \/ \A i \in 1..Len(result.toolResults) : IsFalsy(result.toolResults[i].result)

\* the test that keeps the first turn's result whatever the retry returned
supersedes_Never(followUpResult) == FALSE

\* the test of generateDetailedResponse that lets the retry's result replace
\* the first turn's
supersedes(followUpResult) == followUpResult.toolCalls > 0

\* the catch of generateQuickResponse with the error thrown on
generateQuickResponseCatch_Rethrow == [status |-> "rejected", value |-> ""]

\* the catch of generateQuickResponse: the fixed fallback string
generateQuickResponseCatch == [status |-> "resolved", value |-> QuickFallbackText]

\* QuickResponseAgent.generateQuickResponse
generateQuickResponse(o) ==
    LET result == processMessage(o)
    IN IF result.threw THEN generateQuickResponseCatch
       ELSE [status |-> "resolved", value |-> result.text]

\* ------------------------------------------------------ QuickResponseAgent
\* the payloads handed to connection.send; msg names the inbound message the
\* payload answers (it is not part of the payload)
quickPayload_FreshId(m, text) ==
    [type |-> "response", content |-> text, isQuickResponse |-> TRUE,
     requestId |-> now, msg |-> m]

quickPayload(m, text) ==
    [type |-> "response", content |-> text, isQuickResponse |-> TRUE,
     requestId |-> req[m].requestId, msg |-> m]

detailedPayload(m, result) ==
    [type |-> "response", content |-> result.text, uiComponent |-> result.uiComponent,
     isQuickResponse |-> FALSE, requestId |-> req[m].requestId, msg |-> m]

detailedErrorPayload(m) ==
    [type |-> "error", content |-> DetailedErrorText,
     requestId |-> req[m].requestId, msg |-> m]

\* a quick reply in the place of the error message
onMessageErrorPayload_Quick(m) ==
    [type |-> "response", content |-> OnMessageErrorText, isQuickResponse |-> TRUE,
     requestId |-> req[m].requestId, msg |-> m]

onMessageErrorPayload(m) ==
    [type |-> "error", content |-> OnMessageErrorText, msg |-> m]

\* a send that transmits the payload twice
send_Twice(s, payload) == IF connected THEN s \o <<payload, payload>> ELSE s

\* connection.send(JSON.stringify(payload)): transmits on an open connection
\* and throws on a closed one, where nothing is transmitted
send(s, payload) == IF connected THEN Append(s, payload) ELSE s

\* Map.delete / Map.set on pendingRequests
pendingDelete(p, requestId) == [k \in DOMAIN p \ {requestId} |-> p[k]]
pendingSet(p, requestId, entry) ==
    [k \in DOMAIN p \cup {requestId} |-> IF k = requestId THEN entry ELSE p[k]]

NoResult ==
    [threw |-> FALSE, text |-> "", toolCalls |-> 0, toolResults |-> <<>>,
     uiComponent |-> Undefined]

\* a request id that no other message has
newRequestId_PerMessage(m) == now * (NumMsgs + 1) + m

\* const requestId = Date.now().toString()
newRequestId(m) == now

\* onMessage up to the await of preWarmToolCalls: the message is parsed and,
\* for a chat message, requestId and startTime are taken from the clock
OnMessage(m, inb) ==
    /\ pc[m] = "idle"
    /\ \A k \in Msgs : k < m => pc[k] # "idle"
    /\ IF inb.kind \in {"chat", "chatNoContent"}
       THEN /\ req' = [req EXCEPT ![m] = [content |-> inb.content,
                                          hasContent |-> inb.kind = "chat",
                                          requestId |-> newRequestId(m),
                                          startTime |-> now,
                                          kind |-> inb.kind]]
            /\ pc' = [pc EXCEPT ![m] = "import"]
            /\ sent' = sent
       ELSE /\ pc' = [pc EXCEPT ![m] = "done"]
            /\ sent' = IF inb.kind = "invalidJson"
                       THEN send(sent, onMessageErrorPayload(m))
                       ELSE sent
            /\ req' = [req EXCEPT ![m].kind = inb.kind]
    /\ UNCHANGED <<now, ticks, cache, last, promises, toolOutcome, pendingRequests,
                   awaiting, first, turnsRun, llm>>
    /\ UNCHANGED connected
    /\ UNCHANGED lookup
    /\ UNCHANGED compVars
    /\ UNCHANGED procVars

\* preWarmToolCalls after its dynamic import, then onMessage up to the await
\* of generateQuickResponse
PreWarmToolCalls(m) ==
    /\ pc[m] = "import"
    /\ IF ~req[m].hasContent
       THEN \* query.toLowerCase() throws: onMessage's catch answers
            /\ sent' = send(sent, onMessageErrorPayload(m))
            /\ pc' = [pc EXCEPT ![m] = "done"]
            /\ UNCHANGED <<cache, promises, pendingRequests, lookup>>
       ELSE LET started == startPreWarm(preWarmPlan(req[m].content), req[m].content,
                                        cache, NoPromises, now)
            IN /\ cache' = started.cache
               /\ promises' = [promises EXCEPT ![m] = started.promises]
               /\ pendingRequests' =
                      pendingSet(pendingRequests, req[m].requestId,
                                 [startTime |-> req[m].startTime,
                                  userMessage |-> req[m].content,
                                  preWarmPromises |-> m])
               /\ lookup' =
                      IF req[m].requestId \in DOMAIN pendingRequests
                      THEN LET owner == pendingRequests[req[m].requestId].preWarmPromises
                           IN [lookup EXCEPT ![m].replaced = owner,
                                             ![m].unread = lookup[owner].got = "none"]
                      ELSE lookup
               /\ pc' = [pc EXCEPT ![m] = "quick"]
               /\ sent' = sent
    /\ UNCHANGED <<now, ticks, last, req, toolOutcome, awaiting, first, turnsRun, llm>>
    /\ UNCHANGED connected
    /\ UNCHANGED compVars
    /\ UNCHANGED procVars

\* a pre-warm tool call settles: the rest of executeToolWithCache
ToolSettles(m, t, outcome) ==
    /\ promises[m][t] = "pending"
    /\ LET settled == settleToolCall(cache, t, req[m].content,
                                     preWarmParams(req[m].content, t), outcome, now)
       IN /\ cache' = settled.cache
          /\ promises' = [promises EXCEPT ![m][t] = settled.promise]
    /\ toolOutcome' = [toolOutcome EXCEPT ![m][t] =
                          IF outcome = "reject" THEN "reject" ELSE "ok"]
    /\ UNCHANGED <<now, ticks, last, pc, req, pendingRequests, awaiting, first,
                   turnsRun, llm, sent>>
    /\ UNCHANGED connected
    /\ UNCHANGED lookup
    /\ UNCHANGED compVars
    /\ UNCHANGED procVars

\* generateQuickResponse settles; onMessage sends the quick reply and calls
\* generateDetailedResponse, which runs up to its first await
QuickReturns(m, o) ==
    /\ pc[m] = "quick"
    /\ llm' = [llm EXCEPT ![m].quick = IF o.threw THEN "throw" ELSE "ok"]
    /\ LET quick == generateQuickResponse(o)
           requestId == req[m].requestId
           found == requestId \in DOMAIN pendingRequests
           owner == pendingRequests[requestId].preWarmPromises
       IN IF quick.status = "rejected"
          THEN /\ sent' = send(sent, onMessageErrorPayload(m))
               /\ pc' = [pc EXCEPT ![m] = "done"]
               /\ UNCHANGED <<pendingRequests, awaiting, lookup>>
          ELSE IF ~connected
          THEN \* the send of the quick reply throws, and so does the send
               \* in onMessage's catch: generateDetailedResponse is not called
               /\ sent' = sent
               /\ pc' = [pc EXCEPT ![m] = "done"]
               /\ UNCHANGED <<pendingRequests, awaiting, lookup>>
          ELSE /\ sent' = send(sent, quickPayload(m, quick.value))
               /\ lookup' = [lookup EXCEPT ![m].got =
                                 IF ~found THEN "missing"
                                 ELSE IF owner = m THEN "own" ELSE "other"]
               /\ IF found /\ \E t \in PreWarmTools : promises[owner][t] # "absent"
                  THEN /\ awaiting' = [awaiting EXCEPT ![m] = owner]
                       /\ pc' = [pc EXCEPT ![m] = "awaitPreWarm"]
                       /\ pendingRequests' = pendingRequests
                  ELSE /\ pendingRequests' = pendingDelete(pendingRequests, requestId)
                       /\ pc' = [pc EXCEPT ![m] = "turn1"]
                       /\ awaiting' = awaiting
    /\ UNCHANGED <<now, ticks, cache, last, req, promises, toolOutcome, first, turnsRun>>
    /\ UNCHANGED connected
    /\ UNCHANGED compVars
    /\ UNCHANGED procVars

\* getPreWarmedResults has awaited every promise of the map; the pending
\* entry is deleted and the first full turn starts
PreWarmedResults(m) ==
    /\ pc[m] = "awaitPreWarm"
    /\ \A t \in PreWarmTools : promises[awaiting[m]][t] # "pending"
    /\ pendingRequests' = pendingDelete(pendingRequests, req[m].requestId)
    /\ pc' = [pc EXCEPT ![m] = "turn1"]
    /\ UNCHANGED <<now, ticks, cache, last, req, promises, toolOutcome, awaiting, first,
                   turnsRun, llm, sent>>
    /\ UNCHANGED connected
    /\ UNCHANGED lookup
    /\ UNCHANGED compVars
    /\ UNCHANGED procVars

\* the first processMessageWithUI call settles
Turn1Returns(m, o, ui) ==
    /\ pc[m] = "turn1"
    /\ turnsRun' = [turnsRun EXCEPT ![m] = @ + 1]
    /\ llm' = [llm EXCEPT ![m].main = IF processMessage(o).threw THEN "throw" ELSE "ok",
                           ![m].mainCalls = processMessageWithUI(req[m].content, o, ui).toolCalls]
    /\ LET result == processMessageWithUI(req[m].content, o, ui)
       IN IF result.threw
          THEN /\ sent' = send(sent, detailedErrorPayload(m))
               /\ pc' = [pc EXCEPT ![m] = "done"]
               /\ first' = first
          ELSE IF needsFollowUp(result)
          THEN /\ first' = [first EXCEPT ![m] = result]
               /\ pc' = [pc EXCEPT ![m] = "turn2"]
               /\ sent' = sent
          ELSE /\ sent' = send(sent, detailedPayload(m, result))
               /\ pc' = [pc EXCEPT ![m] = "done"]
               /\ first' = [first EXCEPT ![m] = result]
    /\ UNCHANGED <<now, ticks, cache, last, req, promises, toolOutcome, pendingRequests,
                   awaiting>>
    /\ UNCHANGED connected
    /\ UNCHANGED lookup
    /\ UNCHANGED compVars
    /\ UNCHANGED procVars

\* the forced follow-up processMessageWithUI call settles
Turn2Returns(m, o, ui) ==
    /\ pc[m] = "turn2"
    /\ turnsRun' = [turnsRun EXCEPT ![m] = @ + 1]
    /\ llm' = [llm EXCEPT ![m].retry = IF processMessage(o).threw THEN "throw" ELSE "ok",
                           ![m].retryCalls =
                               processMessageWithUI(followUpPrompt(req[m].content), o, ui).toolCalls,
                           ![m].followUpResult =
                               processMessageWithUI(followUpPrompt(req[m].content), o, ui)]
    /\ LET followUpResult == processMessageWithUI(followUpPrompt(req[m].content), o, ui)
           result == IF supersedes(followUpResult) THEN followUpResult ELSE first[m]
       IN sent' = IF followUpResult.threw
                  THEN send(sent, detailedErrorPayload(m))
                  ELSE send(sent, detailedPayload(m, result))
    /\ pc' = [pc EXCEPT ![m] = "done"]
    /\ UNCHANGED <<now, ticks, cache, last, req, promises, toolOutcome, pendingRequests,
                   awaiting, first>>
    /\ UNCHANGED connected
    /\ UNCHANGED lookup
    /\ UNCHANGED compVars
    /\ UNCHANGED procVars

\* the client goes away: the connection is closed from now on
ConnectionCloses ==
    /\ connected
    /\ \E m \in Msgs : pc[m] \notin {"idle", "done"}
    /\ connected' = FALSE
    /\ UNCHANGED <<now, ticks, cache, last, pc, req, promises, toolOutcome,
                   pendingRequests, awaiting, first, turnsRun, llm, sent, lookup>>
    /\ UNCHANGED compVars
    /\ UNCHANGED procVars

\* ------------------------------------------------------ ComponentGenerator
\* the generateStyledComponent calls made on one ComponentGenerator
NumCalls == 3
Calls == 1..NumCalls

\* const UI_GENERATION_TIMEOUT = 15000
UI_GENERATION_TIMEOUT == 15000

\* the length substring(0, 50) cuts the context to
ContextHashLength == 50

\* the characters of tool names, contexts and shape descriptors in the order
\* of their UTF-16 code units
CodeUnits ==
    <<"\t", " ", ",", "0", "1", "2", "3", "4", "5", "6", "7", "8", "9",
      "A", "B", "C", "D", "E", "F", "G", "H", "I", "J", "K", "L", "M",
      "N", "O", "P", "Q", "R", "S", "T", "U", "V", "W", "X", "Y", "Z", "_",
      "a", "b", "c", "d", "e", "f", "g", "h", "i", "j", "k", "l", "m",
      "n", "o", "p", "q", "r", "s", "t", "u", "v", "w", "x", "y", "z">>
codeUnit(c) == CHOOSE i \in 1..Len(CodeUnits) : CodeUnits[i] = c

\* the comparison Array.prototype.sort() makes without a comparator: strings
\* by code units
RECURSIVE stringLess(_, _)
stringLess(a, b) ==
    IF b = <<>> THEN FALSE
    ELSE IF a = <<>> THEN TRUE
    ELSE IF Head(a) = Head(b) THEN stringLess(Tail(a), Tail(b))
    ELSE codeUnit(Head(a)) < codeUnit(Head(b))

RECURSIVE insertSorted(_, _)
insertSorted(x, s) ==
    IF s = <<>> THEN <<x>>
    ELSE IF stringLess(x, Head(s)) THEN <<x>> \o s
    ELSE <<Head(s)>> \o insertSorted(x, Tail(s))

\* Array.prototype.sort() on an array of strings
RECURSIVE sort(_)
sort(s) == IF s = <<>> THEN <<>> ELSE insertSorted(Head(s), sort(Tail(s)))

\* Array.prototype.join
RECURSIVE join(_, _)
join(s, sep) ==
    IF s = <<>> THEN <<>>
    ELSE IF Len(s) = 1 THEN Head(s)
    ELSE Head(s) \o sep \o join(Tail(s), sep)

\* a number in a template literal
Digits == <<"0", "1", "2", "3", "4", "5", "6", "7", "8", "9">>
RECURSIVE numberToString(_)
numberToString(n) ==
    IF n < 10 THEN <<Digits[n + 1]>>
    ELSE numberToString(n \div 10) \o <<Digits[(n % 10) + 1]>>

\* the descriptor generateCacheKey gives one tool result; a result is
\* [kind, size, data] with kind null, undefined, falsy (0, "", false),
\* array, object or primitive
shapeDescriptor(r) ==
    IF r.result.kind \in {"null", "undefined", "falsy"}
    THEN <<"e", "m", "p", "t", "y">>
    ELSE IF r.result.kind = "array"
    THEN <<"a", "r", "r", "a", "y", "_">> \o numberToString(r.result.size)
    ELSE IF r.result.kind = "object"
    THEN <<"o", "b", "j", "e", "c", "t", "_">> \o numberToString(r.result.size)
    ELSE <<"p", "r", "i", "m", "i", "t", "i", "v", "e">>

\* the key with the tool names in the order of toolResults
componentCacheKey_Unsorted(toolResults, context) ==
    LET toolTypes == join([i \in 1..Len(toolResults) |-> toolResults[i].toolName],
                          <<",">>)
        replaced == replaceWhitespace(toLowerCase(context))
        contextHash == SubSeq(replaced, 1,
                              IF Len(replaced) < ContextHashLength
                              THEN Len(replaced) ELSE ContextHashLength)
        dataStructure == join(sort([i \in 1..Len(toolResults) |->
                                        shapeDescriptor(toolResults[i])]), <<"_">>)
    IN contextHash \o <<"_">> \o toolTypes \o <<"_">> \o dataStructure

\* ComponentGenerator.generateCacheKey(toolResults, context)
componentCacheKey(toolResults, context) ==
    LET toolTypes == join(sort([i \in 1..Len(toolResults) |-> toolResults[i].toolName]),
                          <<",">>)
        replaced == replaceWhitespace(toLowerCase(context))
        contextHash == SubSeq(replaced, 1,
                              IF Len(replaced) < ContextHashLength
                              THEN Len(replaced) ELSE ContextHashLength)
        dataStructure == join(sort([i \in 1..Len(toolResults) |->
                                        shapeDescriptor(toolResults[i])]), <<"_">>)
    IN contextHash \o <<"_">> \o toolTypes \o <<"_">> \o dataStructure

\* the tool names of getTools
SearchTokensName == <<"s", "e", "a", "r", "c", "h", "T", "o", "k", "e", "n", "s">>
SearchAddressName == <<"s", "e", "a", "r", "c", "h", "A", "d", "d", "r", "e", "s", "s">>

\* the arguments generateStyledComponent is called with: the first two differ
\* in the data and in the spelling of the context and share one cache key,
\* the third has two tool results, out of order, and a key of its own
CtxPrice == <<"P", "r", "i", "c", "e", " ", "A">>
CtxPrice2 == <<"p", "r", "i", "c", "e", "\t", " ", "a">>
ComponentArgs ==
    << [toolResults |-> <<[toolName |-> SearchTokensName,
                           result |-> [kind |-> "array", size |-> 1, data |-> "d1"]]>>,
        context |-> CtxPrice],
       [toolResults |-> <<[toolName |-> SearchTokensName,
                           result |-> [kind |-> "array", size |-> 1, data |-> "d2"]]>>,
        context |-> CtxPrice2],
       [toolResults |-> <<[toolName |-> SearchTokensName,
                           result |-> [kind |-> "object", size |-> 12, data |-> "d3"]],
                          [toolName |-> SearchAddressName,
                           result |-> [kind |-> "falsy", size |-> 0, data |-> "d4"]]>>,
        context |-> CtxPrice] >>

\* the objects generateObject resolves with
LlmObjects ==
    { [componentCode |-> <<"g1">>, props |-> [tokens |-> "d1"],
       explanation |-> "e1", componentType |-> "chart"],
      [componentCode |-> <<"g2">>, props |-> [tokens |-> "d2"],
       explanation |-> "e2", componentType |-> "data-display"] }

NoComponent ==
    [componentCode |-> <<>>, props |-> [none |-> TRUE], explanation |-> "",
     componentType |-> ""]

\* the fallbackComponent of the catch block
fallbackComponent(toolResults) ==
    [componentCode |-> <<"<div>", "Data Analysis", "Analyzing data...">>
                       \o numberToString(Len(toolResults))
                       \o <<" tool result(s) received",
                            "UI generation took too long, showing simplified view",
                            "</div>">>,
     props |-> [toolResults |-> toolResults],
     explanation |-> "Fallback component due to UI generation timeout",
     componentType |-> "data-display"]

\* the catch block throwing the error on
generateStyledComponentCatch_Rethrow(toolResults) ==
    [status |-> "rejected", value |-> NoComponent]

\* the catch block of generateStyledComponent: whatever the race rejected
\* with, the call returns the fallback component
generateStyledComponentCatch(toolResults) ==
    [status |-> "resolved", value |-> fallbackComponent(toolResults)]

\* a set that keeps an entry the key already has
componentCacheSet_KeepExisting(c, key, value) ==
    [k \in DOMAIN c \cup {key} |-> IF k \in DOMAIN c THEN c[k] ELSE value]

\* Map.prototype.set on componentCache
componentCacheSet(c, key, value) ==
    [k \in DOMAIN c \cup {key} |-> IF k = key THEN value ELSE c[k]]

IdleCall ==
    [state |-> "idle", toolResults |-> <<>>, context |-> <<>>, start |-> 0,
     waited |-> 0, how |-> "none", status |-> "none", value |-> NoComponent,
     llmInvoked |-> FALSE, prior |-> {}, generateObject |-> "none"]

\* generateStyledComponent(toolResults, context) up to the await: a cached
\* key returns its component at once, any other starts the race of
\* generateObject against the timer
GenerateStyledComponent(c, a) ==
    LET cacheKey == componentCacheKey(a.toolResults, a.context)
        began == [IdleCall EXCEPT !.toolResults = a.toolResults,
                                  !.context = a.context,
                                  !.start = now,
                                  !.prior = {r.component : r \in
                                      {x \in returned : /\ x.toolResults = a.toolResults
                                                        /\ x.context = a.context}}]
    IN /\ gen[c].state = "idle"
       /\ c > 1 => gen[c - 1].state # "idle"
       /\ IF cacheKey \in DOMAIN componentCache
          THEN gen' = [gen EXCEPT ![c] =
                          [began EXCEPT !.state = "done", !.start = 0,
                                        !.how = "hit", !.status = "resolved",
                                        !.value = componentCache[cacheKey]]]
          ELSE gen' = [gen EXCEPT ![c] =
                          [began EXCEPT !.state = "racing", !.llmInvoked = TRUE,
                                        !.generateObject = "pending"]]
       /\ UNCHANGED <<componentCache, returned>>
       /\ UNCHANGED <<now, ticks, cache, last>>
       /\ UNCHANGED agentVars
       /\ UNCHANGED procVars

\* generateObject resolves before the timer fires: the object is cached and
\* returned
LlmResolves(c, object) ==
    /\ gen[c].state = "racing"
    /\ componentCache' = componentCacheSet(componentCache,
                             componentCacheKey(gen[c].toolResults, gen[c].context), object)
    /\ gen' = [gen EXCEPT ![c].state = "done", ![c].start = 0,
                          ![c].how = "generated", ![c].status = "resolved",
                          ![c].value = object, ![c].generateObject = "resolved"]
    /\ returned' = returned \cup {[toolResults |-> gen[c].toolResults,
                                   context |-> gen[c].context, component |-> object]}
    /\ UNCHANGED <<now, ticks, cache, last>>
    /\ UNCHANGED agentVars
    /\ UNCHANGED procVars

\* generateObject rejects before the timer fires
LlmRejects(c) ==
    LET r == generateStyledComponentCatch(gen[c].toolResults)
    IN /\ gen[c].state = "racing"
       /\ gen' = [gen EXCEPT ![c].state = "done", ![c].start = 0,
                             ![c].how = "error", ![c].status = r.status,
                             ![c].value = r.value, ![c].generateObject = "rejected"]
       /\ UNCHANGED <<componentCache, returned>>
       /\ UNCHANGED <<now, ticks, cache, last>>
       /\ UNCHANGED agentVars
       /\ UNCHANGED procVars

\* the timer fires, UI_GENERATION_TIMEOUT or more after it was set, with
\* generateObject still pending
TimeoutFires(c) ==
    LET r == generateStyledComponentCatch(gen[c].toolResults)
    IN /\ gen[c].state = "racing"
       /\ now - gen[c].start >= UI_GENERATION_TIMEOUT
       /\ gen' = [gen EXCEPT ![c].state = "done", ![c].start = 0,
                             ![c].waited = now - gen[c].start,
                             ![c].how = "timeout", ![c].status = r.status,
                             ![c].value = r.value]
       /\ UNCHANGED <<componentCache, returned>>
       /\ UNCHANGED <<now, ticks, cache, last>>
       /\ UNCHANGED agentVars
       /\ UNCHANGED procVars

\* a late object stored all the same
lateResult_Cached(c, key, object) == componentCacheSet(c, key, object)

\* componentCache after generateObject resolved with the race already lost:
\* Promise.race has settled, the code after the await ran in the catch block,
\* nothing reads the object
lateResult(c, key, object) == c

\* generateObject resolves after the timer fired
LateLlmResolves(c, object) ==
    /\ gen[c].state = "done"
    /\ gen[c].generateObject = "pending"
    /\ componentCache' = lateResult(componentCache,
                             componentCacheKey(gen[c].toolResults, gen[c].context), object)
    /\ gen' = [gen EXCEPT ![c].generateObject = "lateResolved"]
    /\ UNCHANGED returned
    /\ UNCHANGED <<now, ticks, cache, last>>
    /\ UNCHANGED agentVars
    /\ UNCHANGED procVars

\* generateObject rejects after the timer fired
LateLlmRejects(c) ==
    /\ gen[c].state = "done"
    /\ gen[c].generateObject = "pending"
    /\ gen' = [gen EXCEPT ![c].generateObject = "lateRejected"]
    /\ UNCHANGED <<componentCache, returned>>
    /\ UNCHANGED <<now, ticks, cache, last>>
    /\ UNCHANGED agentVars
    /\ UNCHANGED procVars

\* ------------------------------------------------------------ AIProcessor
\* the processMessage calls made on one AIProcessor
NumProcessCalls == 2
ProcessCalls == 1..NumProcessCalls

\* the tools argument: the agent's tool set, or {} as generateQuickResponse
\* passes it
ToolSets == {"tools", "{}"}

\* what the follow-up streamText call ends with: a text, a blank text, or an
\* error
SynthOutcomes == {"synthesis", "", "throw"}

IdleProcess ==
    [state |-> "idle", tools |-> "", streamTextCalls |-> <<>>,
     main |-> Thrown, result |-> Thrown]

\* the value processMessage returns
processResult(text, main) ==
    [threw |-> FALSE, text |-> IF text = "" THEN NoResponseText ELSE text,
     toolCalls |-> main.toolCalls, toolResults |-> main.toolResults]

\* processMessage(messages, tools, env) up to its first await: no messages
\* throws, any other input calls streamText with the tools given
ProcessMessage(c, messageCount, tools) ==
    /\ pm[c].state = "idle"
    /\ c > 1 => pm[c - 1].state # "idle"
    /\ pm' = [pm EXCEPT ![c] =
                 IF messageCount = 0
                 THEN [IdleProcess EXCEPT !.state = "done", !.tools = tools]
                 ELSE [IdleProcess EXCEPT !.state = "main", !.tools = tools,
                           !.streamTextCalls = <<[call |-> "main", tools |-> tools]>>]]
    /\ UNCHANGED <<now, ticks, cache, last>>
    /\ UNCHANGED agentVars
    /\ UNCHANGED compVars
    /\ UNCHANGED <<decision, evaluation, storeVars>>

\* the main streamText call settles: an error is thrown on, a blank text with
\* tool calls starts the follow-up call with tools: {}, anything else is the
\* result
MainReturns(c, o) ==
    /\ pm[c].state = "main"
    /\ pm[c].tools = "{}" => o.toolCalls = 0
    /\ LET main == [threw |-> o.threw, text |-> o.text, toolCalls |-> o.toolCalls,
                    toolResults |-> o.toolResults]
       IN pm' = [pm EXCEPT ![c] =
                    IF o.threw
                    THEN [@ EXCEPT !.state = "done", !.main = main]
                    ELSE IF needsSynthesis(o.text, o.toolCalls)
                    THEN [@ EXCEPT !.state = "synth", !.main = main,
                              !.streamTextCalls =
                                  Append(@, [call |-> "synth", tools |-> "{}"])]
                    ELSE [@ EXCEPT !.state = "done", !.main = main,
                              !.result = processResult(o.text, main)]]
    /\ UNCHANGED <<now, ticks, cache, last>>
    /\ UNCHANGED agentVars
    /\ UNCHANGED compVars
    /\ UNCHANGED <<decision, evaluation, storeVars>>

\* the follow-up streamText call settles: its text, whatever it is, becomes
\* the final text; an error is thrown on
SynthReturns(c, synth) ==
    /\ pm[c].state = "synth"
    /\ pm' = [pm EXCEPT ![c] =
                 IF synth = "throw"
                 THEN [@ EXCEPT !.state = "done"]
                 ELSE [@ EXCEPT !.state = "done",
                           !.result = processResult(synth, pm[c].main)]]
    /\ UNCHANGED <<now, ticks, cache, last>>
    /\ UNCHANGED agentVars
    /\ UNCHANGED compVars
    /\ UNCHANGED <<decision, evaluation, storeVars>>

\* ------------------------------------------------------- shouldGenerateUI
\* the longest user message drawn and the characters it is made of
MaxMessageLen == 3
MessageChars == {"a", "p", "y", "r", "A", "P"}
UserMessages == UNION {[1..n -> MessageChars] : n \in 0..MaxMessageLen}

\* the longest toolResults list drawn
MaxToolResults == 2

\* the elements of toolResults: null, a number, a string, an empty array, an
\* empty object and an object of one string-valued key
ToolResultItems ==
    { [type |-> "null", key |-> <<>>, text |-> <<>>],
      [type |-> "number", key |-> <<>>, text |-> <<"1">>],
      [type |-> "string", key |-> <<>>, text |-> <<"A", "P", "y">>],
      [type |-> "array", key |-> <<>>, text |-> <<>>],
      [type |-> "object", key |-> <<>>, text |-> <<>>],
      [type |-> "object", key |-> <<"T", "o", "k", "e", "n">>, text |-> <<"A">>],
      [type |-> "object", key |-> <<"i", "d">>, text |-> <<"A">>] }
ToolResultLists == UNION {[1..n -> ToolResultItems] : n \in 0..MaxToolResults}

\* JSON.stringify(result) of such an element
stringifyResult(result) ==
    CASE result.type = "null" -> <<"n", "u", "l", "l">>
      [] result.type = "number" -> result.text
      [] result.type = "string" -> <<"\"">> \o jsonEscape(result.text) \o <<"\"">>
      [] result.type = "array" -> <<"[", "]">>
      [] OTHER ->
           IF result.key = <<>> THEN <<"{", "}">>
           ELSE <<"{", "\"">> \o jsonEscape(result.key) \o <<"\"", ":", "\"">>
                \o jsonEscape(result.text) \o <<"\"", "}">>

\* Object.keys(result).length of an object
objectKeysLength(result) == IF result.key = <<>> THEN 0 ELSE 1

\* uiTriggers.some(trigger => str.includes(trigger))
someTriggerIncluded(str) == \E trigger \in uiTriggers : includes(str, trigger)

\* const hasUITrigger = uiTriggers.some(trigger => messageLower.includes(trigger))
hasUITrigger(userMessage) == someTriggerIncluded(toLowerCase(userMessage))

\* the earlier version's hasVisualizableData
hasVisualizableData(toolResults) ==
    \E i \in 1..Len(toolResults) :
        LET result == toolResults[i]
            resultStr == toLowerCase(stringifyResult(result))
        IN \/ someTriggerIncluded(resultStr)
           \/ /\ result.type \in {"array", "object"}
              /\ (result.type = "array" \/ objectKeysLength(result) > 0)

\* shouldGenerateUI of the earlier version of the class: no tool results, no
\* UI; otherwise the user's message or the tool results decide
shouldGenerateUIVisualizable(toolResults, userMessage) ==
    IF Len(toolResults) = 0 THEN FALSE
    ELSE hasUITrigger(userMessage) \/ hasVisualizableData(toolResults)

NoDecision ==
    [version |-> "none", toolResults |-> <<>>, userMessage |-> <<>>, result |-> FALSE]

\* a call of the later version's shouldGenerateUI; one call is followed
ShouldGenerateUI ==
    /\ decision.version = "none"
    /\ \E toolResults \in ToolResultLists, userMessage \in UserMessages :
          decision' = [version |-> "message", toolResults |-> toolResults,
                       userMessage |-> userMessage,
                       result |-> shouldGenerateUI(toolResults, userMessage)]
    /\ UNCHANGED <<now, ticks, cache, last, pm, evaluation, storeVars>>
    /\ UNCHANGED agentVars
    /\ UNCHANGED compVars

\* a call of the earlier version's shouldGenerateUI; one call is followed
ShouldGenerateUIVisualizable ==
    /\ decision.version = "none"
    /\ \E toolResults \in ToolResultLists, userMessage \in UserMessages :
          decision' = [version |-> "visualizable", toolResults |-> toolResults,
                       userMessage |-> userMessage,
                       result |-> shouldGenerateUIVisualizable(toolResults, userMessage)]
    /\ UNCHANGED <<now, ticks, cache, last, pm, evaluation, storeVars>>
    /\ UNCHANGED agentVars
    /\ UNCHANGED compVars

\* ------------------------------------------------------ ResponseEvaluator
\* scores are fractions [num, den] with den > 0
Fraction(num, den) == [num |-> num, den |-> den]
Tenths(n) == Fraction(n, 10)
fractionLess(a, b) == a.num * b.den < b.num * a.den

\* the most feedback a message has received
MaxFeedback == 11

\* what getFeedbackAnalytics resolves to: null (no row, no database, or an
\* error it caught), or the row updateAnalytics wrote, which counts the
\* feedback entries and those of them with thumbsUp
AnalyticsRows ==
    {[found |-> FALSE, totalFeedback |-> 0, positiveFeedback |-> 0]}
    \cup {[found |-> TRUE, totalFeedback |-> t, positiveFeedback |-> p] :
             t \in 1..MaxFeedback, p \in 0..MaxFeedback}
AnalyticsResults == {a \in AnalyticsRows : a.positiveFeedback <= a.totalFeedback}

\* FeedbackManager.getFeedbackStats: total and positiveRate
getFeedbackStats(analytics) ==
    IF ~analytics.found
    THEN [total |-> 0, positiveRate |-> Fraction(0, 1)]
    ELSE [total |-> analytics.totalFeedback,
          positiveRate |-> IF analytics.totalFeedback > 0
                           THEN Fraction(analytics.positiveFeedback, analytics.totalFeedback)
                           ELSE Fraction(0, 1)]

\* what the query for response_context ends with: an error, no row, a row
\* whose text is not JSON or is the JSON null, or a row with a context of
\* processingTime (0 when absent), a number of tool results (-1 when absent)
\* and a model name
ProcessingTimes == {0, 999, 1000, 2999, 3000, 4999, 5000, 9999, 10000}
ToolResultCounts == {-1, 0, 1, 3, 4}
Models == {"absent", "gpt-4o-mini", "other"}
ResponseData ==
    {[outcome |-> o, processingTime |-> 0, toolResults |-> -1, model |-> "absent"] :
        o \in {"fails", "noRow", "notJson", "jsonNull"}}
    \cup {[outcome |-> "context", processingTime |-> p, toolResults |-> n, model |-> m] :
             p \in ProcessingTimes, n \in ToolResultCounts, m \in Models}

calculateResponseTimeScore(processingTime) ==
    IF processingTime < 1000 THEN Tenths(9)
    ELSE IF processingTime < 3000 THEN Tenths(8)
    ELSE IF processingTime < 5000 THEN Tenths(6)
    ELSE IF processingTime < 10000 THEN Tenths(4)
    ELSE Tenths(2)

\* context.toolResults || [] and its length
toolResultsLength(n) == IF n < 0 THEN 0 ELSE n

calculateToolUsageScore(length) ==
    IF length = 0 THEN Tenths(3)
    ELSE IF length = 1 THEN Tenths(7)
    ELSE IF length <= 3 THEN Tenths(9)
    ELSE Tenths(6)

calculateContextRelevanceScore(context) ==
    LET score == 5 + (IF context.toolResults > 0 THEN 2 ELSE 0)
                   + (IF context.model = "gpt-4o-mini" THEN 1 ELSE 0)
                   + (IF context.processingTime > 0 THEN 1 ELSE 0)
    IN Tenths(IF score < 10 THEN score ELSE 10)

\* calculateMetrics, given the context it parsed ({} without a row)
calculateMetrics(context, feedbackStats) ==
    [userScore |-> IF feedbackStats.positiveRate.num = 0 THEN Tenths(5)
                   ELSE feedbackStats.positiveRate,
     responseTime |-> calculateResponseTimeScore(context.processingTime),
     toolUsage |-> calculateToolUsageScore(toolResultsLength(context.toolResults)),
     contextRelevance |-> calculateContextRelevanceScore(context)]

\* the weighted average: 0.4 userScore + 0.2 of each other metric
weightedScore(metrics) ==
    Fraction(40 * metrics.userScore.num
                + 2 * metrics.userScore.den
                    * (metrics.responseTime.num + metrics.toolUsage.num
                       + metrics.contextRelevance.num),
             100 * metrics.userScore.den)

qualityLevel(score) ==
    IF ~fractionLess(score, Tenths(8)) THEN "excellent"
    ELSE IF ~fractionLess(score, Tenths(6)) THEN "good"
    ELSE IF ~fractionLess(score, Tenths(4)) THEN "fair"
    ELSE "poor"

\* the confidence without its cap
confidence_Uncapped(feedbackStats) == Fraction(feedbackStats.total, 10)

\* Math.min(feedbackStats.total / 10, 1.0)
confidence(feedbackStats) ==
    IF feedbackStats.total < 10 THEN Fraction(feedbackStats.total, 10) ELSE Fraction(1, 1)

calculateOverallQuality(metrics, feedbackStats) ==
    LET score == weightedScore(metrics)
    IN [score |-> score, level |-> qualityLevel(score),
        confidence |-> confidence(feedbackStats)]

\* the default assessment of evaluateResponse's catch block
defaultQuality ==
    [score |-> Tenths(5), level |-> "fair", confidence |-> Tenths(1)]

NoStats == [total |-> 0, positiveRate |-> Fraction(0, 1)]
IdleEvaluation ==
    [state |-> "idle", feedbackStats |-> NoStats, status |-> "none", failed |-> FALSE,
     quality |-> defaultQuality]

\* evaluateResponse up to the await in calculateMetrics: getFeedbackStats has
\* resolved
EvaluateResponse ==
    /\ evaluation.state = "idle"
    /\ \E analytics \in AnalyticsResults :
          evaluation' = [evaluation EXCEPT !.state = "metrics",
                                           !.feedbackStats = getFeedbackStats(analytics)]
    /\ UNCHANGED <<now, ticks, cache, last, pm, decision, storeVars>>
    /\ UNCHANGED agentVars
    /\ UNCHANGED compVars

\* the query of calculateMetrics settles and evaluateResponse returns: an
\* error of the query, of JSON.parse or of reading a property of null ends in
\* the catch block
MetricsReturn ==
    /\ evaluation.state = "metrics"
    /\ \E responseData \in ResponseData :
          evaluation' =
              IF responseData.outcome \in {"fails", "notJson", "jsonNull"}
              THEN [evaluation EXCEPT !.state = "done", !.status = "resolved",
                                      !.failed = TRUE, !.quality = defaultQuality]
              ELSE [evaluation EXCEPT
                       !.state = "done", !.status = "resolved",
                       !.quality = calculateOverallQuality(
                                       calculateMetrics(responseData, evaluation.feedbackStats),
                                       evaluation.feedbackStats)]
    /\ UNCHANGED <<now, ticks, cache, last, pm, decision, storeVars>>
    /\ UNCHANGED agentVars
    /\ UNCHANGED compVars

\* ----------------------------------------------------------- specifications
InitAgent ==
    /\ pc = [m \in Msgs |-> "idle"]
    /\ req = [m \in Msgs |-> [content |-> <<>>, hasContent |-> FALSE,
                              requestId |-> 0, startTime |-> 0, kind |-> "none"]]
    /\ promises = [m \in Msgs |-> NoPromises]
    /\ toolOutcome = [m \in Msgs |-> [t \in PreWarmTools |-> "none"]]
    /\ pendingRequests = <<>>
    /\ awaiting = [m \in Msgs |-> m]
    /\ first = [m \in Msgs |-> NoResult]
    /\ turnsRun = [m \in Msgs |-> 0]
    /\ llm = [m \in Msgs |-> [quick |-> "none", main |-> "none", retry |-> "none",
                              mainCalls |-> 0, retryCalls |-> 0,
                              followUpResult |-> NoResult]]
    /\ sent = <<>>
    /\ connected = TRUE
    /\ lookup = [m \in Msgs |-> [replaced |-> 0, unread |-> FALSE, got |-> "none"]]

InitCache ==
    /\ now = 0
    /\ ticks = 0
    /\ cache = <<>>
    /\ last = [op |-> "none", args |-> NoArgs, time |-> 0, result |-> Undefined,
               pre |-> NoEntry, size |-> 0]

\* ------------------------------------------------------------ Mc2fiMCPAgent
\* the trackToolUsage and addToHistory calls made on one agent
MaxTracked == 2

\* .slice(-50) of addToHistory, .slice(-5) of learnFromTokenSearch
HistoryLimit == 50
ChainLimit == 5

\* min > 1000000000, max < 100000000
LargeCap == 1000000000
SmallCap == 100000000

\* Array.prototype.slice(-n)
sliceLast(s, n) == IF Len(s) <= n THEN s ELSE SubSeq(s, Len(s) - n + 1, Len(s))

\* initialState of Mc2fiMCPAgent
initialState ==
    [sessionId |-> "uuid",
     conversationHistory |-> <<>>,
     userPreference |->
         [riskTolerance |-> "medium", preferredChains |-> <<>>, analyticsEnabled |-> TRUE,
          searchFrequency |-> [daily |-> 0, weekly |-> 0, lastSearchDate |-> 0]]]

\* n earlier entries of one type
EarlierHistory(n, type) ==
    [i \in 1..n |-> [type |-> type, content |-> <<"earlier">>, timestamp |-> 0]]

\* the states an agent wakes up with: a new one, and two that earlier
\* sessions left in storage
PersistedStates ==
    { initialState,
      [initialState EXCEPT
          !.conversationHistory = EarlierHistory(HistoryLimit - 1, "analysis_result"),
          !.userPreference.preferredChains = <<"c1", "c2", "c3", "c4", "c5">>],
      [initialState EXCEPT
          !.conversationHistory = EarlierHistory(HistoryLimit, "user_query"),
          !.userPreference.riskTolerance = "high",
          !.userPreference.preferredChains = <<"c1">>] }

\* the params of a tracked tool call: absent members are Undefined, an
\* absent marketcap is a record with present = FALSE; min and max are
\* numbers, 0 when absent (both falsy)
NoMarketcap == [present |-> FALSE, min |-> 0, max |-> 0]
TrackedParams ==
    { [filters |-> [chain |-> c, marketcap |-> mc],
       sorting |-> [field |-> f.field, direction |-> f.direction]] :
        c \in {Undefined, "c1", "c6"},
        mc \in { NoMarketcap,
                 [present |-> TRUE, min |-> 2 * LargeCap, max |-> 0],
                 [present |-> TRUE, min |-> 0, max |-> SmallCap \div 2],
                 [present |-> TRUE, min |-> SmallCap, max |-> LargeCap] },
        f \in { [field |-> Undefined, direction |-> Undefined],
                [field |-> "apy", direction |-> Undefined],
                [field |-> "tvl", direction |-> "asc"] } }
TrackedToolNames == {"advanced-token-search", "search-token", "search-address", "get-vaults"}

\* { ...currentPrefs, ...preferences }
mergePreferences(currentPrefs, preferences) ==
    [k \in DOMAIN currentPrefs \cup DOMAIN preferences |->
        IF k \in DOMAIN preferences THEN preferences[k] ELSE currentPrefs[k]]

\* PreferenceManager.updateUserPreferences: the state it hands to updateState,
\* built on the state the manager was constructed with
updateUserPreferences(state, preferences) ==
    [state EXCEPT !.userPreference = mergePreferences(state.userPreference, preferences)]

\* HistoryManager.addToHistory: the state it hands to updateState, built on
\* the state the manager was constructed with
addToHistory(state, type, content, time) ==
    [state EXCEPT !.conversationHistory =
        sliceLast(Append(state.conversationHistory,
                         [type |-> type, content |-> content, timestamp |-> time]),
                  HistoryLimit)]

\* currentChains.includes(newChain)
chainsInclude(currentChains, newChain) ==
    \E i \in 1..Len(currentChains) : currentChains[i] = newChain

\* the riskTolerance learnFromTokenSearch derives from filters.marketcap
learnedRiskTolerance(marketcap) ==
    IF marketcap.min # 0 /\ marketcap.min > LargeCap THEN "low"
    ELSE IF marketcap.max # 0 /\ marketcap.max < SmallCap THEN "high"
    ELSE "medium"

\* PreferenceManager.learnFromTokenSearch: the states it hands to updateState,
\* in order; this.state is the same object throughout
learnFromTokenSearch(state, params) ==
    LET filters == params.filters
        sorting == params.sorting
        currentChains == state.userPreference.preferredChains
        chains == IF filters.chain # Undefined /\ ~chainsInclude(currentChains, filters.chain)
                  THEN <<updateUserPreferences(state,
                            [preferredChains |->
                                sliceLast(Append(currentChains, filters.chain), ChainLimit)])>>
                  ELSE <<>>
        risk == IF filters.marketcap.present
                THEN <<updateUserPreferences(state,
                          [riskTolerance |-> learnedRiskTolerance(filters.marketcap)])>>
                ELSE <<>>
        sortField == IF sorting.field # Undefined
                THEN <<updateUserPreferences(state,
                          [preferredSortField |-> sorting.field,
                           preferredSortDirection |->
                               IF sorting.direction # Undefined THEN sorting.direction
                               ELSE "desc"])>>
                ELSE <<>>
    IN chains \o risk \o sortField

\* PreferenceManager.learnFromEntityAnalysis
learnFromEntityAnalysis(state, params) ==
    LET analysisHistory ==
            sliceLast(SelectSeq(state.conversationHistory,
                                LAMBDA h : h.type = "analysis_result"), 20)
    IN IF Len(analysisHistory) > 5
       THEN <<updateUserPreferences(state, [analyticsEnabled |-> TRUE])>>
       ELSE <<>>

\* HistoryManager.trackToolUsage on a history manager and a preference
\* manager: the states handed to setState, in order
trackToolUsage(historyState, preferenceState, toolName, params, time) ==
    <<addToHistory(historyState, "tool_call", <<toolName, params>>, time)>>
    \o (IF toolName = "advanced-token-search"
        THEN learnFromTokenSearch(preferenceState, params)
        ELSE IF toolName = "search-token" \/ toolName = "search-address"
        THEN learnFromEntityAnalysis(preferenceState, params)
        ELSE <<>>)

NoTracked ==
    [toolName |-> "none", params |-> [filters |-> [chain |-> Undefined,
                                                  marketcap |-> NoMarketcap],
                                      sorting |-> [field |-> Undefined,
                                                   direction |-> Undefined]],
     before |-> initialState, time |-> 0]

\* Mc2fiMCPAgent.init: both managers are constructed on this.state
McpInit ==
    /\ mcp.phase = "created"
    /\ \E state \in PersistedStates :
          mcp' = [mcp EXCEPT !.phase = "ready", !.state = state,
                             !.historyManager = state, !.preferenceManager = state]
    /\ UNCHANGED <<now, ticks, cache, last, pm, decision, evaluation, task_prompts, upd>>
    /\ UNCHANGED agentVars
    /\ UNCHANGED compVars

\* the setState calls of one synchronous method, made in order: the last one
\* is the agent's state, and onStateUpdate, called for each, leaves both
\* managers constructed on it
setStates(m, states) ==
    LET final == states[Len(states)]
    IN [m EXCEPT !.state = final, !.historyManager = final, !.preferenceManager = final]

\* Mc2fiMCPAgent.trackToolUsage(toolName, params): the history manager and
\* the preference manager passed to it are those of the moment of the call
TrackToolUsage ==
    /\ mcp.phase = "ready"
    /\ mcp.tracked < MaxTracked
    /\ \E toolName \in TrackedToolNames, params \in TrackedParams :
          mcp' = [setStates(mcp, trackToolUsage(mcp.historyManager, mcp.preferenceManager,
                                                toolName, params, now))
                    EXCEPT !.tracked = @ + 1,
                           !.lastTracked = [toolName |-> toolName, params |-> params,
                                            before |-> mcp.state, time |-> now]]
    /\ UNCHANGED <<now, ticks, cache, last, pm, decision, evaluation, task_prompts, upd>>
    /\ UNCHANGED agentVars
    /\ UNCHANGED compVars

\* Mc2fiMCPAgent.addToHistory(type, content)
AddToHistory ==
    /\ mcp.phase = "ready"
    /\ mcp.tracked < MaxTracked
    /\ \E type \in {"user_query", "analysis_result"} :
          mcp' = [setStates(mcp, <<addToHistory(mcp.historyManager, type, <<"text">>, now)>>)
                    EXCEPT !.tracked = @ + 1, !.lastTracked = NoTracked]
    /\ UNCHANGED <<now, ticks, cache, last, pm, decision, evaluation, task_prompts, upd>>
    /\ UNCHANGED agentVars
    /\ UNCHANGED compVars

InitMcp ==
    mcp = [phase |-> "created", state |-> initialState, historyManager |-> initialState,
           preferenceManager |-> initialState, tracked |-> 0, lastTracked |-> NoTracked]

\* ------------------------------------------------------------ task prompts
\* the updateTaskPrompt calls made on one agent; call u stores PromptContents[u]
NumUpdates == 3
Updates == 1..NumUpdates
PromptNames == {"analysis", "summary"}
PromptContents == <<"t1", "t2", "t3">>

\* WHERE prompt_name = ?
rowsOf(rows, name) == SelectSeq(rows, LAMBDA r : r.prompt_name = name)

\* the versions ORDER BY version DESC puts first: the rows of the name with
\* the highest version
topRows(rows, name) ==
    {i \in 1..Len(rowsOf(rows, name)) :
        \A j \in 1..Len(rowsOf(rows, name)) :
            rowsOf(rows, name)[j].version <= rowsOf(rows, name)[i].version}

\* const version = current ? current.version + 1 : 1
nextVersion(rows, name) ==
    IF Len(rowsOf(rows, name)) = 0 THEN 1
    ELSE (CHOOSE v \in {rowsOf(rows, name)[i].version : i \in topRows(rows, name)} : TRUE) + 1

IdleUpdate == [state |-> "idle", name |-> "", content |-> "", version |-> 0]
NoPrompt == [state |-> "none", name |-> "", content |-> "", latest |-> ""]

\* updateTaskPrompt(name, content) up to the await of the SELECT: the
\* version to insert is computed from the rows stored now
UpdateSelect(u, name) ==
    /\ upd.calls[u].state = "idle"
    /\ upd' = [upd EXCEPT !.calls[u] =
                   [state |-> "selected", name |-> name, content |-> PromptContents[u],
                    version |-> nextVersion(task_prompts, name)]]
    /\ UNCHANGED <<now, ticks, cache, last, pm, decision, evaluation, mcp, task_prompts>>
    /\ UNCHANGED agentVars
    /\ UNCHANGED compVars

\* the INSERT of updateTaskPrompt: the table has no constraint on
\* (prompt_name, version), and no id is given, so the row is stored
UpdateInsert(u) ==
    /\ upd.calls[u].state = "selected"
    /\ task_prompts' = Append(task_prompts,
                             [prompt_name |-> upd.calls[u].name,
                              prompt_content |-> upd.calls[u].content,
                              version |-> upd.calls[u].version,
                              performance_score |-> 0])
    /\ upd' = [upd EXCEPT !.calls[u].state = "done"]
    /\ UNCHANGED <<now, ticks, cache, last, pm, decision, evaluation, mcp>>
    /\ UNCHANGED agentVars
    /\ UNCHANGED compVars

\* getTaskPrompt(name): the content of a row with the highest version, any
\* of them when several rows have it (ORDER BY version leaves their order
\* open); without a row it throws
GetTaskPrompt(name) ==
    /\ IF Len(rowsOf(task_prompts, name)) = 0
       THEN upd' = [upd EXCEPT !.got = [state |-> "threw", name |-> name, content |-> "",
                                        latest |-> ""]]
       ELSE \E i \in topRows(task_prompts, name) :
               upd' = [upd EXCEPT !.got =
                   [state |-> "returned", name |-> name,
                    content |-> rowsOf(task_prompts, name)[i].prompt_content,
                    latest |-> rowsOf(task_prompts, name)
                                  [Len(rowsOf(task_prompts, name))].prompt_content]]
    /\ UNCHANGED <<now, ticks, cache, last, pm, decision, evaluation, mcp, task_prompts>>
    /\ UNCHANGED agentVars
    /\ UNCHANGED compVars

InitPrompts ==
    /\ task_prompts = <<>>
    /\ upd = [calls |-> [u \in Updates |-> IdleUpdate], got |-> NoPrompt]

InitComponent ==
    /\ componentCache = <<>>
    /\ gen = [c \in Calls |-> IdleCall]
    /\ returned = {}

InitProcessor == pm = [c \in ProcessCalls |-> IdleProcess]

InitUI == decision = NoDecision

InitEvaluation == evaluation = IdleEvaluation

Init ==
    InitCache /\ InitAgent /\ InitComponent /\ InitProcessor /\ InitUI /\ InitEvaluation
    /\ InitMcp /\ InitPrompts

NextCache ==
    \/ \E d \in TickSteps : Tick(d)
    \/ \E a \in CacheArgs : GetCachedResult(a)
    \/ \E a \in CacheArgs, v \in Values : SetCachedResult(a, v)
    \/ Cleanup

SpecCache == Init /\ [][NextCache]_vars

\* two or more chat messages handled concurrently; the clock advances by
\* milliseconds, so that request ids collide or differ
ChatInbound == {[kind |-> "chat", content |-> q] : q \in AgentQueries}
ConcurrentLlmOutcomes ==
    {o \in LlmOutcomes : o.threw \/ (o.toolCalls > 0 /\ ~IsFalsy(o.toolResults[1].result))}

\* the clock advances between the arrivals of messages
ArrivalTick ==
    /\ ticks < MaxArrivalTicks
    /\ \E m \in Msgs : pc[m] = "idle"
    /\ Tick(1)

NextAgent ==
    \/ ArrivalTick
    \/ \E m \in Msgs, inb \in ChatInbound : OnMessage(m, inb)
    \/ \E m \in Msgs : PreWarmToolCalls(m)
    \/ \E m \in Msgs, t \in PreWarmTools, outcome \in {"v1", "reject"} :
          ToolSettles(m, t, outcome)
    \/ \E m \in Msgs, o \in QuickLlmOutcomes : QuickReturns(m, o)
    \/ \E m \in Msgs : PreWarmedResults(m)
    \/ \E m \in Msgs, o \in ConcurrentLlmOutcomes, ui \in UiOutcomes : Turn1Returns(m, o, ui)
    \/ \E m \in Msgs, o \in ConcurrentLlmOutcomes, ui \in UiOutcomes : Turn2Returns(m, o, ui)

SpecAgent == Init /\ [][NextAgent]_vars

\* what the handlers wait for returns, seen by its effect: a pending
\* pre-warm promise settles
PromiseSettles ==
    \E m \in Msgs, t \in PreWarmTools :
        /\ promises[m][t] = "pending"
        /\ \E v \in {Null, "v1", "rejected"} :
              promises' = [promises EXCEPT ![m][t] = v]

\* a handler leaves the await it stands at: the dynamic import, the quick
\* LLM call, a full LLM turn, or getPreWarmedResults once every promise it
\* awaits has settled
HandlerResumes ==
    \/ \E m \in Msgs :
          /\ pc[m] \in {"import", "quick", "turn1", "turn2"}
          /\ \E p \in {"quick", "awaitPreWarm", "turn1", "turn2", "done"} :
                p # pc[m] /\ pc' = [pc EXCEPT ![m] = p]
    \/ \E m \in Msgs :
          /\ pc[m] = "awaitPreWarm"
          /\ \A t \in PreWarmTools : promises[awaiting[m]][t] # "pending"
          /\ pc' = [pc EXCEPT ![m] = "turn1"]

\* every tool call and every LLM call returns or fails
FairAgent == WF_promises(PromiseSettles) /\ WF_pc(HandlerResumes)

SpecAgentLive == Init /\ [][NextAgent]_vars /\ FairAgent

\* one message of any kind, with every outcome of every call it makes
NextDetailed ==
    \/ \E d \in TickSteps : Tick(d)
    \/ \E inb \in Inbound : OnMessage(1, inb)
    \/ PreWarmToolCalls(1)
    \/ \E t \in PreWarmTools, outcome \in ToolOutcomes : ToolSettles(1, t, outcome)
    \/ \E o \in QuickLlmOutcomes : QuickReturns(1, o)
    \/ PreWarmedResults(1)
    \/ \E o \in LlmOutcomes, ui \in UiOutcomes : Turn1Returns(1, o, ui)
    \/ \E o \in LlmOutcomes, ui \in UiOutcomes : Turn2Returns(1, o, ui)

SpecDetailed == Init /\ [][NextDetailed]_vars

\* one chat message whose two full turns end in every way a turn can
NextTurns ==
    \/ \E inb \in ChatInbound : OnMessage(1, inb)
    \/ PreWarmToolCalls(1)
    \/ \E t \in PreWarmTools : ToolSettles(1, t, "v1")
    \/ \E o \in QuickLlmOutcomes : QuickReturns(1, o)
    \/ PreWarmedResults(1)
    \/ \E o \in TurnOutcomes, ui \in UiOutcomes : Turn1Returns(1, o, ui)
    \/ \E o \in TurnOutcomes, ui \in UiOutcomes : Turn2Returns(1, o, ui)

SpecTurns == Init /\ [][NextTurns]_vars

\* one message of any kind, on a connection the client may close at any
\* moment of its handling
NextDisconnect ==
    \/ ConnectionCloses
    \/ \E inb \in Inbound : OnMessage(1, inb)
    \/ PreWarmToolCalls(1)
    \/ \E t \in PreWarmTools, outcome \in ToolOutcomes : ToolSettles(1, t, outcome)
    \/ \E o \in QuickLlmOutcomes : QuickReturns(1, o)
    \/ PreWarmedResults(1)
    \/ \E o \in LlmOutcomes, ui \in UiOutcomes : Turn1Returns(1, o, ui)
    \/ \E o \in LlmOutcomes, ui \in UiOutcomes : Turn2Returns(1, o, ui)

SpecDisconnect == Init /\ [][NextDisconnect]_vars

\* generateStyledComponent calls on one ComponentGenerator, started one after
\* another and running concurrently; the clock advances by a millisecond or by
\* just under the timeout
ComponentTickSteps == {1, UI_GENERATION_TIMEOUT - 1}

NextComponent ==
    \/ \E d \in ComponentTickSteps : Tick(d)
    \/ \E c \in Calls, i \in 1..Len(ComponentArgs) : GenerateStyledComponent(c, ComponentArgs[i])
    \/ \E c \in Calls, object \in LlmObjects : LlmResolves(c, object)
    \/ \E c \in Calls : LlmRejects(c)
    \/ \E c \in Calls : TimeoutFires(c)

SpecComponent == Init /\ [][NextComponent]_vars

\* the same calls made one after another: each begins once the one before it
\* has returned
NoCallRacing == \A c \in Calls : gen[c].state # "racing"

SequentialCall(c, a) ==
    /\ NoCallRacing
    /\ GenerateStyledComponent(c, a)

NextComponentSequential ==
    \/ \E d \in ComponentTickSteps : Tick(d)
    \/ \E c \in Calls, i \in 1..Len(ComponentArgs) : SequentialCall(c, ComponentArgs[i])
    \/ \E c \in Calls, object \in LlmObjects : LlmResolves(c, object)
    \/ \E c \in Calls : LlmRejects(c)
    \/ \E c \in Calls : TimeoutFires(c)

SpecComponentSequential == Init /\ [][NextComponentSequential]_vars

\* concurrent calls whose generateObject may settle after the timer has
\* fired; the clock advances by the timeout
NextComponentLate ==
    \/ Tick(UI_GENERATION_TIMEOUT)
    \/ \E c \in Calls, i \in 1..Len(ComponentArgs) : GenerateStyledComponent(c, ComponentArgs[i])
    \/ \E c \in Calls, object \in LlmObjects : LlmResolves(c, object)
    \/ \E c \in Calls : LlmRejects(c)
    \/ \E c \in Calls : TimeoutFires(c)
    \/ \E c \in Calls, object \in LlmObjects : LateLlmResolves(c, object)
    \/ \E c \in Calls : LateLlmRejects(c)

SpecComponentLate == Init /\ [][NextComponentLate]_vars

\* processMessage calls on one AIProcessor, with and without messages and
\* tools, each streamText call ending in every way it can
NextProcessor ==
    \/ \E c \in ProcessCalls, messageCount \in {0, 1}, tools \in ToolSets :
          ProcessMessage(c, messageCount, tools)
    \/ \E c \in ProcessCalls, o \in TurnOutcomes : MainReturns(c, o)
    \/ \E c \in ProcessCalls, synth \in SynthOutcomes : SynthReturns(c, synth)

SpecProcessor == Init /\ [][NextProcessor]_vars

\* shouldGenerateUI, in both versions, on every toolResults list and every
\* user message drawn
NextUI ==
    \/ ShouldGenerateUI
    \/ ShouldGenerateUIVisualizable

SpecUI == Init /\ [][NextUI]_vars

\* queries that meet each keyword of preWarmToolCalls alone, in capitals,
\* together, or not at all
QSearch == <<"s", "e", "a", "r", "c", "h">>
QPortfolio == <<"P", "o", "r", "t", "f", "o", "l", "i", "o">>
QAddress == <<"A", "d", "d", "r", "e", "s", "s">>
QDigital == <<"d", "i", "g", "i", "T", "A", "l">>
QAddressAsset == <<"a", "d", "d", "r", "e", "s", "s", " ", "A", "s", "s", "e", "t">>
PreWarmQueries ==
    {QTokenA, QHi, QTokenAsset, QAsset, QSearch, QPortfolio, QAddress, QDigital,
     QAddressAsset}
PreWarmInbound == {[kind |-> "chat", content |-> q] : q \in PreWarmQueries}

\* preWarmToolCalls of two chat messages, the second of which may find the
\* first one's results in the cache
NextPreWarm ==
    \/ \E m \in Msgs, inb \in PreWarmInbound : OnMessage(m, inb)
    \/ \E m \in Msgs : PreWarmToolCalls(m)
    \/ \E m \in Msgs, t \in PreWarmTools, outcome \in ToolOutcomes :
          ToolSettles(m, t, outcome)

SpecPreWarm == Init /\ [][NextPreWarm]_vars

\* a context of 51 characters that is 50 characters long once its whitespace
\* is collapsed, and what may follow it
LongContext == <<"P", " ", "\t">> \o [i \in 1..48 |-> "x"]
TokensArray(size, data) ==
    [toolName |-> SearchTokensName,
     result |-> [kind |-> "array", size |-> size, data |-> data]]
AddressResult(kind, data) ==
    [toolName |-> SearchAddressName,
     result |-> [kind |-> kind, size |-> 0, data |-> data]]

\* arguments of generateStyledComponent that agree or differ in the order of
\* the tool results, their data, their shapes, their tool names, and the
\* context within and beyond its first 50 characters
KeyArgs ==
    { [toolResults |-> <<TokensArray(1, "d1"), AddressResult("falsy", "d4")>>,
       context |-> LongContext \o <<"y">>],
      [toolResults |-> <<AddressResult("null", "d5"), TokensArray(1, "d2")>>,
       context |-> LongContext \o <<" ", "z">>],
      [toolResults |-> <<TokensArray(1, "d1"), AddressResult("falsy", "d4")>>,
       context |-> <<"Q">> \o Tail(LongContext) \o <<"y">>],
      [toolResults |-> <<TokensArray(2, "d1"), AddressResult("falsy", "d4")>>,
       context |-> LongContext \o <<"y">>],
      [toolResults |-> <<TokensArray(1, "d1"), AddressResult("primitive", "d4")>>,
       context |-> LongContext],
      [toolResults |-> <<TokensArray(1, "d1"), TokensArray(1, "d1")>>,
       context |-> LongContext \o <<"y">>],
      [toolResults |-> <<TokensArray(1, "d1")>>,
       context |-> LongContext \o <<"y">>] }

\* generateStyledComponent called again and again, one call at a time, each
\* LLM call succeeding
NextKeys ==
    \/ \E c \in Calls, a \in KeyArgs : SequentialCall(c, a)
    \/ \E c \in Calls, object \in LlmObjects : LlmResolves(c, object)

SpecKeys == Init /\ [][NextKeys]_vars

\* two inbound messages, each a chat message, a string that is not JSON or
\* a non-string, handled concurrently
MixedInbound ==
    {[kind |-> "chat", content |-> QTokenA]}
    \cup {[kind |-> k, content |-> <<>>] : k \in {"invalidJson", "binary"}}

NextMixed ==
    \/ \E m \in Msgs, inb \in MixedInbound : OnMessage(m, inb)
    \/ \E m \in Msgs : PreWarmToolCalls(m)
    \/ \E m \in Msgs, t \in PreWarmTools, outcome \in {"v1", "reject"} :
          ToolSettles(m, t, outcome)
    \/ \E m \in Msgs, o \in QuickLlmOutcomes : QuickReturns(m, o)
    \/ \E m \in Msgs : PreWarmedResults(m)
    \/ \E m \in Msgs, o \in ConcurrentLlmOutcomes, ui \in UiOutcomes : Turn1Returns(m, o, ui)
    \/ \E m \in Msgs, o \in ConcurrentLlmOutcomes, ui \in UiOutcomes : Turn2Returns(m, o, ui)

SpecMixed == Init /\ [][NextMixed]_vars

\* one evaluateResponse call over every feedback row and response context
NextEvaluation ==
    \/ EvaluateResponse
    \/ MetricsReturn

SpecEvaluation == Init /\ [][NextEvaluation]_vars

\* one Mc2fiMCPAgent: it wakes up, then tools are tracked and history entries
\* added one call after another
NextMcp ==
    \/ McpInit
    \/ TrackToolUsage
    \/ AddToHistory

SpecMcp == Init /\ [][NextMcp]_vars

\* updateTaskPrompt calls running concurrently on one agent, and
\* getTaskPrompt calls in between
NextPrompts ==
    \/ \E u \in Updates, name \in PromptNames : UpdateSelect(u, name)
    \/ \E u \in Updates : UpdateInsert(u)
    \/ \E name \in PromptNames : GetTaskPrompt(name)

SpecPrompts == Init /\ [][NextPrompts]_vars

\* both caches under concurrent calls for one key: chat messages that
\* pre-warm the same tools, whose tool calls return different results, and,
\* once these have settled, generateStyledComponent calls whose generateObject
\* calls resolve with different objects
PreWarmSettled ==
    \A m \in Msgs : /\ pc[m] = "quick"
                     /\ \A t \in PreWarmTools : promises[m][t] # "pending"

ComponentCall(c, a) ==
    /\ PreWarmSettled
    /\ GenerateStyledComponent(c, a)

RaceInbound == {[kind |-> "chat", content |-> q] : q \in {QTokenA, QTokenAsset}}

NextCaches ==
    \/ \E m \in Msgs, inb \in RaceInbound : OnMessage(m, inb)
    \/ \E m \in Msgs : PreWarmToolCalls(m)
    \/ \E m \in Msgs, t \in PreWarmTools, outcome \in {"v1", "v2"} :
          ToolSettles(m, t, outcome)
    \/ \E c \in Calls, i \in 1..Len(ComponentArgs) : ComponentCall(c, ComponentArgs[i])
    \/ \E c \in Calls, object \in LlmObjects : LlmResolves(c, object)

SpecCaches == Init /\ [][NextCaches]_vars

\* --------------------------------------------------------------- the cache
LastKey == generateCacheKey(last.args.toolName, last.args.query, last.args.params)

\* C3: getCachedResult returns the stored result while now - timestamp <= TTL,
\* returns null and deletes the entry once now - timestamp > TTL, and returns
\* null for a key that was never set.
C3_GetWithinTtlInclusive ==
    last.op = "get" =>
        IF ~last.pre.present
        THEN last.result = Null /\ LastKey \notin DOMAIN cache
        ELSE IF last.time - last.pre.timestamp <= CACHE_TTL
             THEN /\ last.result = last.pre.result
                  /\ LastKey \in DOMAIN cache
                  /\ cache[LastKey].timestamp = last.pre.timestamp
             ELSE last.result = Null /\ LastKey \notin DOMAIN cache

\* C4: setCachedResult(toolName, query, v, params) followed by
\* getCachedResult(toolName, query, params) before the TTL has elapsed
\* (immediately included) returns v, for every toolName, query, params and v.
C4_SetThenGet ==
    (last.op = "set" /\ now - last.time < CACHE_TTL) =>
        getCachedResultValue(cache, last.args.toolName, last.args.query,
                             last.args.params, now) = last.result

\* a set of a non-null value, read back at the same millisecond and later
C4_Witness ==
    /\ last.op = "set"
    /\ last.result = "v1"
    /\ now - last.time = 1
    /\ last.args.query = QTokenA

\* C5: a set on a key that already holds an entry overwrites it: the cache
\* holds as many entries as before, the one under the key carries the new
\* result and the time of the second set, and a lookup returns the new result.
C5_Overwrite ==
    (last.op = "set" /\ last.pre.present) =>
        /\ Cardinality(DOMAIN cache) = last.size
        /\ LastKey \in DOMAIN cache
        /\ cache[LastKey].result = last.result
        /\ cache[LastKey].timestamp = last.time
        /\ (now = last.time =>
                getCachedResultValue(cache, last.args.toolName, last.args.query,
                                     last.args.params, now) = last.result)

\* a second set with another value at a later time
C5_Witness ==
    /\ last.op = "set"
    /\ last.pre.present
    /\ last.pre.result = "v1"
    /\ last.result = "v2"
    /\ last.pre.timestamp < last.time

\* ---------------------------------------------------- QuickResponseAgent
\* a payload of the detailed phase: the detailed response or its error
IsDetailed(p) ==
    \/ (p.type = "response" /\ ~p.isQuickResponse)
    \/ (p.type = "error" /\ p.content = DetailedErrorText)

IsQuick(p) == p.type = "response" /\ p.isQuickResponse

\* C1: whatever the interleaving of concurrently handled messages, the
\* detailed response (or detailed-phase error) of a message is sent after
\* the quick reply of the same message, and both carry the same requestId.
C1_QuickBeforeDetailed ==
    \A j \in 1..Len(sent) :
        IsDetailed(sent[j]) =>
            \E i \in 1..(j - 1) :
                /\ sent[i].msg = sent[j].msg
                /\ IsQuick(sent[i])
                /\ sent[i].requestId = sent[j].requestId

\* two messages with one requestId, answered interleaved
C1_Witness ==
    /\ Len(sent) = 4
    /\ req[1].requestId = req[2].requestId
    /\ IsQuick(sent[1]) /\ sent[1].msg = 1
    /\ IsQuick(sent[2]) /\ sent[2].msg = 2
    /\ IsDetailed(sent[3]) /\ sent[3].msg = 2
    /\ IsDetailed(sent[4]) /\ sent[4].msg = 1

\* C2: a detailed response runs at most two full turns, and when the first
\* turn returned zero tool calls it runs exactly two: one retry, whatever
\* the retry returns.
C2_AtMostOneRetry ==
    \A m \in Msgs :
        /\ turnsRun[m] <= 2
        /\ (pc[m] = "turn2" => turnsRun[m] = 1)
        /\ (pc[m] = "done" /\ llm[m].main # "none" /\ llm[m].mainCalls = 0)
               => turnsRun[m] = 2

\* the retry, too, returned zero tool calls, and the response was sent
C2_Witness ==
    /\ pc[1] = "done"
    /\ turnsRun[1] = 2
    /\ llm[1].main = "ok" /\ llm[1].mainCalls = 0
    /\ llm[1].retry = "ok" /\ llm[1].retryCalls = 0
    /\ IsDetailed(sent[Len(sent)])

\* C6: when the main LLM turn throws, the client receives a type "error"
\* message with the fixed apology for that request, and the failure is not
\* delivered as a type "response" message.
C6_MainFailureSentAsError ==
    \A m \in Msgs :
        (pc[m] = "done" /\ llm[m].main = "throw") =>
            /\ \E i \in 1..Len(sent) :
                   /\ sent[i].msg = m
                   /\ sent[i].type = "error"
                   /\ sent[i].content = DetailedErrorText
            /\ ~\E i \in 1..Len(sent) :
                   /\ sent[i].msg = m
                   /\ sent[i].type = "response"
                   /\ ~sent[i].isQuickResponse

\* C7: when a pre-warm tool call rejects, its promise resolves to null, the
\* tool cache is left as it was, and the handling of the message goes on
\* undisturbed.
C7_PreWarmFailure ==
    [][\A m \in Msgs, t \in PreWarmTools :
          (toolOutcome[m][t] = "none" /\ toolOutcome'[m][t] = "reject") =>
              /\ promises'[m][t] = Null
              /\ cache' = cache
              /\ pc' = pc
              /\ sent' = sent]_vars

\* a pre-warm call failed while the cache holds another call's result, and
\* the message was answered
C7_Witness ==
    \E t \in PreWarmTools :
        /\ toolOutcome[1][t] = "reject"
        /\ promises[1][t] = Null
        /\ DOMAIN cache # {}
        /\ pc[1] = "done"
        /\ IsDetailed(sent[Len(sent)])

\* C8: when the LLM call of the quick phase fails, the quick reply is sent
\* with the fixed fallback string, no error is sent, and the detailed phase
\* starts.
C8_QuickFallback ==
    \A m \in Msgs :
        llm[m].quick = "throw" =>
            /\ \E i \in 1..Len(sent) :
                   /\ sent[i].msg = m
                   /\ IsQuick(sent[i])
                   /\ sent[i].content = QuickFallbackText
            /\ ~\E i \in 1..Len(sent) : sent[i].msg = m /\ sent[i].type = "error"
            /\ pc[m] \in {"awaitPreWarm", "turn1", "turn2", "done"}
            /\ (pc[m] = "done" => turnsRun[m] >= 1)

\* the quick LLM call failed and the detailed response was sent all the same
C8_Witness ==
    /\ llm[1].quick = "throw"
    /\ pc[1] = "done"
    /\ Len(sent) = 2
    /\ IsDetailed(sent[2])

\* ------------------------------------------------ the component generator
\* C9: generateStyledComponent never rejects. A call whose generateObject was
\* still pending when the timer fired resolves then, no sooner than the 15000
\* ms of UI_GENERATION_TIMEOUT after it began, and a call whose generateObject
\* failed resolves at the failure; both resolve with the fallback component of
\* their tool results, whose componentType is "data-display" and whose
\* explanation is "Fallback component due to UI generation timeout".
C9_NeverRejects ==
    \A c \in Calls :
        gen[c].state = "done" =>
            /\ gen[c].status = "resolved"
            /\ gen[c].how \in {"timeout", "error"} =>
                   /\ gen[c].value = fallbackComponent(gen[c].toolResults)
                   /\ gen[c].value.componentType = "data-display"
                   /\ gen[c].value.explanation =
                          "Fallback component due to UI generation timeout"
                   /\ gen[c].value.props.toolResults = gen[c].toolResults
            /\ gen[c].how = "timeout" =>
                   /\ gen[c].waited >= 15000
                   /\ gen[c].llmInvoked

\* one call ended by the timer with its generateObject still pending, another
\* by a failure of generateObject
C9_Witness ==
    \E c, d \in Calls :
        /\ gen[c].state = "done" /\ gen[c].how = "timeout"
        /\ gen[d].state = "done" /\ gen[d].how = "error"

RetryIssued(m) == pc[m] = "turn2" \/ turnsRun[m] = 2

\* the first turn of the message has returned
FirstTurnOver(m) == turnsRun[m] >= 1

\* null, undefined or another falsy value; an empty array is data
EmptyResult(r) == r.result \in {Null, Undefined, "", "0", "false"}

C12_RetrySupersedes ==
    \A m \in Msgs :
        (turnsRun[m] = 2 /\ pc[m] = "done") =>
            LET chosen == IF llm[m].followUpResult.toolCalls >= 1
                          THEN llm[m].followUpResult ELSE first[m]
            IN \E i \in 1..Len(sent) :
                   /\ sent[i].type = "response"
                   /\ ~sent[i].isQuickResponse
                   /\ sent[i].msg = m
                   /\ sent[i].content = chosen.text
                   /\ sent[i].uiComponent = chosen.uiComponent

\* a retry without tool calls after a first turn that had a component: the
\* first turn's text and component went out, and they differ from the retry's
C12_Witness ==
    /\ turnsRun[1] = 2 /\ pc[1] = "done"
    /\ llm[1].followUpResult.toolCalls = 0
    /\ first[1].uiComponent # Undefined
    /\ first[1].text # llm[1].followUpResult.text
    /\ sent[Len(sent)].content = first[1].text

\* ------------------------------------------------------------ AIProcessor
\* the follow-up streamText calls a processMessage call has made
SynthCalls(c) ==
    {i \in 1..Len(pm[c].streamTextCalls) : pm[c].streamTextCalls[i].call = "synth"}

\* the main streamText call of a processMessage call has ended with a result
MainEnded(c) == pm[c].state \in {"synth", "done"} /\ ~pm[c].main.threw
                /\ Len(pm[c].streamTextCalls) >= 1

\* C13: a processMessage call makes the synthesis follow-up call exactly
\* when its main call ended with a blank text and at least one tool call; it
\* makes it at most once, with an empty tool set, and after it no further
\* streamText call, however the follow-up ended.
C13_SynthesisOnce ==
    \A c \in ProcessCalls :
        /\ Cardinality(SynthCalls(c)) <= 1
        /\ Len(pm[c].streamTextCalls) <= 2
        /\ \A i \in SynthCalls(c) : pm[c].streamTextCalls[i].tools = "{}" /\ i = 2
        /\ MainEnded(c) =>
               (SynthCalls(c) # {} <=>
                   /\ pm[c].main.text \in {"", "  "}
                   /\ pm[c].main.toolCalls >= 1)
        /\ ~MainEnded(c) => SynthCalls(c) = {}

\* one call made the follow-up call and returned its text; another ended its
\* main call with a blank text and no tool call and made none
C13_Witness ==
    \E c, d \in ProcessCalls :
        /\ pm[c].state = "done" /\ SynthCalls(c) = {2}
        /\ pm[c].result.text = "synthesis"
        /\ pm[d].state = "done" /\ MainEnded(d) /\ SynthCalls(d) = {}
        /\ pm[d].main.text = "  "

\* ------------------------------------------------------- pending requests
\* the main turn of generateDetailedResponse has started for the message
MainTurnStarted(m) == pc[m] \in {"turn1", "turn2"} \/ turnsRun[m] >= 1

\* C14: under every interleaving of concurrently handled chat messages, the
\* main LLM turn of a request does not start while a pre-warm promise created
\* for that same request is still pending.
C14_MainTurnAfterOwnPreWarm ==
    \A m \in Msgs :
        MainTurnStarted(m) => \A t \in PreWarmTools : promises[m][t] # "pending"

\* the pendingRequests entries that hold the pre-warm promises of the message
OwnEntries(m) ==
    {k \in DOMAIN pendingRequests : pendingRequests[k].preWarmPromises = m}

\* no message is being handled
NoRequestInFlight == \A m \in Msgs : pc[m] \in {"idle", "done"}

\* C15: the pendingRequests entry of a chat message exists from the moment
\* onMessage stored it and is gone once the request's detailed response has
\* been sent or has failed, on every path, also when onMessage fails after
\* storing it; whenever no request is in flight the map is empty.
C15_PendingEntryConsumed ==
    /\ \A m \in Msgs : pc[m] = "done" => OwnEntries(m) = {}
    /\ NoRequestInFlight => DOMAIN pendingRequests = {}

\* the message is a chat request that has been given its request id
IsRequest(m) == pc[m] # "idle" /\ req[m].hasContent

ToolKey(m, t) ==
    generateCacheKey(<<t>>, req[m].content, preWarmParams(req[m].content, t))

\* the component cache key of a generateStyledComponent call
ComponentKey(c) == componentCacheKey(gen[c].toolResults, gen[c].context)

\* executeToolWithCache of a message's pre-warm call has just written
ToolWrites(m, t) ==
    /\ promises[m][t] = "pending"
    /\ promises'[m][t] # "pending"
    /\ toolOutcome'[m][t] = "ok"

\* C17: check-then-act on the shared caches is unprotected. A call for a key
\* that is not in the cache misses and invokes the tool / the LLM also while
\* another call for the same key is in flight; each call that gets a result
\* writes it under the key, so that afterwards the cache holds one entry for
\* the key, with the result of the call that wrote last, and every other
\* entry is as it was.
C17_LastWriteWins ==
    [][ /\ \A m \in Msgs :
              (pc[m] = "import" /\ pc'[m] = "quick") =>
                  \A t \in PreWarmTools :
                      (promises'[m][t] # "absent" /\ ToolKey(m, t) \notin DOMAIN cache)
                          => promises'[m][t] = "pending"
        /\ \A m \in Msgs, t \in PreWarmTools :
              ToolWrites(m, t) =>
                  /\ DOMAIN cache' = DOMAIN cache \cup {ToolKey(m, t)}
                  /\ cache'[ToolKey(m, t)].result = promises'[m][t]
                  /\ \A k \in DOMAIN cache \ {ToolKey(m, t)} : cache'[k] = cache[k]
        /\ \A c \in Calls :
              (gen[c].state = "idle" /\ gen'[c].state # "idle"
               /\ componentCacheKey(gen'[c].toolResults, gen'[c].context)
                      \notin DOMAIN componentCache)
                  => gen'[c].state = "racing" /\ gen'[c].llmInvoked
        /\ \A c \in Calls :
              (gen[c].state = "racing" /\ gen'[c].how = "generated") =>
                  /\ DOMAIN componentCache' = DOMAIN componentCache \cup {ComponentKey(c)}
                  /\ componentCache'[ComponentKey(c)] = gen'[c].value
                  /\ \A k \in DOMAIN componentCache \ {ComponentKey(c)} :
                         componentCache'[k] = componentCache[k]
      ]_vars

\* two pre-warm calls for one key both ran the tool and got different
\* results, the cache holding that of the first message, which wrote last,
\* next to another entry; two generateStyledComponent calls for one key both
\* invoked the LLM and got different components, the cache holding that of
\* the first call, which wrote last, next to another entry
C17_Witness ==
    /\ toolOutcome[1]["searchTokens"] = "ok" /\ toolOutcome[2]["searchTokens"] = "ok"
    /\ ToolKey(1, "searchTokens") = ToolKey(2, "searchTokens")
    /\ promises[1]["searchTokens"] # promises[2]["searchTokens"]
    /\ cache[ToolKey(1, "searchTokens")].result = promises[1]["searchTokens"]
    /\ Cardinality(DOMAIN cache) >= 2
    /\ gen[1].how = "generated" /\ gen[2].how = "generated"
    /\ gen[1].llmInvoked /\ gen[2].llmInvoked
    /\ ComponentKey(1) = ComponentKey(2)
    /\ gen[1].value # gen[2].value
    /\ componentCache[ComponentKey(1)] = gen[1].value
    /\ Cardinality(DOMAIN componentCache) >= 2

\* ------------------------------------------------- cleanup and immutability
\* the step is a call of cleanup()
CleanupStep == last'.op = "cleanup" /\ ticks' = ticks

\* C18: cleanup() deletes every entry with now - timestamp > TTL and nothing
\* else: after it the cache holds exactly the entries that were not older
\* than TTL, each with its result and timestamp unchanged.
C18_CleanupFrame ==
    [][ CleanupStep =>
            /\ DOMAIN cache' =
                   {k \in DOMAIN cache : ~(now - cache[k].timestamp > CACHE_TTL)}
            /\ \A k \in DOMAIN cache' : cache'[k] = cache[k]
      ]_vars

\* a cleanup that deleted one entry and kept another that was exactly TTL old
C18_Witness ==
    /\ last.op = "cleanup"
    /\ now = last.time
    /\ Cardinality(DOMAIN cache) < last.size
    /\ \E k \in DOMAIN cache : now - cache[k].timestamp = CACHE_TTL

\* C19: a cache entry is never mutated after creation. Whatever is under a
\* key after a step is what was there before, unless the step is a set of
\* that key; a hit of getCachedResult leaves the timestamp as it was, and so
\* no lookup later than t + TTL returns an entry set at time t.
C19_EntryImmutable ==
    [][ /\ \A k \in DOMAIN cache \cap DOMAIN cache' :
              cache'[k] # cache[k] => (last'.op = "set" /\ LastKey' = k)
        /\ (last'.op = "get" /\ last' # last /\ last'.result # Null) =>
              /\ last'.pre.present
              /\ LastKey' \in DOMAIN cache'
              /\ cache'[LastKey'].timestamp = last'.pre.timestamp
              /\ cache'[LastKey'].result = last'.result
              /\ last'.time <= last'.pre.timestamp + CACHE_TTL
      ]_vars

\* a hit some time after the set, with the timestamp still that of the set
C19_Witness ==
    /\ last.op = "get"
    /\ last.result = "v1"
    /\ last.time = last.pre.timestamp + CACHE_TTL - 1
    /\ cache[LastKey].timestamp = last.pre.timestamp

\* ------------------------------------------------------------- UI decision
\* the user's message or some stringified tool result contains a keyword of
\* the trigger list
KeywordPresent ==
    \/ someTriggerIncluded(toLowerCase(decision.userMessage))
    \/ \E i \in 1..Len(decision.toolResults) :
          someTriggerIncluded(toLowerCase(stringifyResult(decision.toolResults[i])))

QueryMentions(m, kw1, kw2) ==
    \/ includes(toLowerCase(req[m].content), kw1)
    \/ includes(toLowerCase(req[m].content), kw2)

\* preWarmToolCalls of message m returns in this step
PreWarmReturns(m) == pc[m] = "import" /\ req[m].hasContent /\ pc'[m] = "quick"

\* C21: the key set of the map preWarmToolCalls returns is determined by
\* substring tests on the lower-cased query: searchTokens iff "token" or
\* "search", searchAddress iff "portfolio" or "address", searchDigitalAsset
\* iff "digital" or "asset"; the map is returned without waiting for a tool
\* call: no tool has completed by then, and a promise that is already resolved
\* holds a result the cache held before.
C21_PreWarmKeys ==
    [][ \A m \in Msgs : PreWarmReturns(m) =>
          /\ (promises'[m]["searchTokens"] # "absent")
                 <=> QueryMentions(m, <<"t", "o", "k", "e", "n">>,
                                      <<"s", "e", "a", "r", "c", "h">>)
          /\ (promises'[m]["searchAddress"] # "absent")
                 <=> QueryMentions(m, <<"p", "o", "r", "t", "f", "o", "l", "i", "o">>,
                                      <<"a", "d", "d", "r", "e", "s", "s">>)
          /\ (promises'[m]["searchDigitalAsset"] # "absent")
                 <=> QueryMentions(m, <<"d", "i", "g", "i", "t", "a", "l">>,
                                      <<"a", "s", "s", "e", "t">>)
          /\ toolOutcome' = toolOutcome
          /\ \A t \in PreWarmTools :
                promises'[m][t] \notin {"absent", "pending"} =>
                    \E k \in DOMAIN cache : cache[k].result = promises'[m][t]
      ]_vars

\* a query in capitals has two calls pending and none for searchTokens
C21_Witness ==
    \E m \in Msgs :
        /\ pc[m] = "quick"
        /\ req[m].content = QAddressAsset
        /\ promises[m] = [t \in PreWarmTools |->
                             IF t = "searchTokens" THEN "absent" ELSE "pending"]

\* ------------------------------------------------------ component cache key
\* how often each element occurs in a list
Occurrences(f) ==
    [x \in {f[i] : i \in DOMAIN f} |-> Cardinality({i \in DOMAIN f : f[i] = x})]

\* the three parts of the key, for the arguments of call c: the tool names,
\* the first 50 characters of the lower-cased context with its whitespace
\* collapsed, the shapes of the results
KeyToolNames(c) ==
    Occurrences([i \in DOMAIN gen[c].toolResults |-> gen[c].toolResults[i].toolName])
KeyContext(c) ==
    LET normal == replaceWhitespace(toLowerCase(gen[c].context))
    IN [i \in 1..(IF Len(normal) < 50 THEN Len(normal) ELSE 50) |-> normal[i]]
KeyShapes(c) ==
    Occurrences([i \in DOMAIN gen[c].toolResults |->
        LET r == gen[c].toolResults[i].result
        IN CASE r.kind \in {"null", "undefined", "falsy"} -> <<"empty", 0>>
             [] r.kind = "array" -> <<"array", r.size>>
             [] r.kind = "object" -> <<"object", r.size>>
             [] OTHER -> <<"primitive", 0>>])
SameKeyParts(c, d) ==
    /\ KeyToolNames(c) = KeyToolNames(d)
    /\ KeyContext(c) = KeyContext(d)
    /\ KeyShapes(c) = KeyShapes(d)

\* C22: the component cache key depends only on the sorted tool names, the
\* first 50 characters of the lower-cased, whitespace-collapsed context and
\* the shape descriptors of the results: two calls that agree on the three
\* have one key, whatever the order of their toolResults, the rest of their
\* contexts and their data, and the later of them is answered from the entry
\* the earlier one wrote.
C22_KeyDependsOnParts ==
    \A c, d \in Calls :
        (gen[c].state # "idle" /\ gen[d].state # "idle" /\ SameKeyParts(c, d)) =>
            /\ ComponentKey(c) = ComponentKey(d)
            /\ (c < d /\ gen[c].how = "generated") =>
                   /\ gen[d].how = "hit"
                   /\ ~gen[d].llmInvoked
                   /\ gen[d].value = gen[c].value

\* two calls with the tool results in another order, other data and contexts
\* that differ after the 50th character; the second is a cache hit
C22_Witness ==
    \E c, d \in Calls :
        /\ c < d
        /\ gen[c].how = "generated" /\ gen[d].how = "hit"
        /\ Len(gen[c].toolResults) = 2 /\ Len(gen[d].toolResults) = 2
        /\ gen[c].toolResults[1].toolName = gen[d].toolResults[2].toolName
        /\ gen[c].toolResults[1].toolName # gen[d].toolResults[1].toolName
        /\ gen[c].toolResults[1].result.data # gen[d].toolResults[2].result.data
        /\ gen[c].context # gen[d].context
        /\ Cardinality(DOMAIN componentCache) = 1

\* ------------------------------------------------------------ invalid JSON
\* the positions in sent of what was transmitted for message m
SentFor(m) == {i \in 1..Len(sent) : sent[i].msg = m}

\* C23: a string message that is not valid JSON does not crash the handler:
\* onMessage ends in its catch block, exactly one message of type "error" is
\* sent for it, and it gets no quick reply, no detailed response, no pre-warm
\* call and no pendingRequests entry.
C23_InvalidJsonAnswered ==
    \A m \in Msgs :
        req[m].kind = "invalidJson" =>
            /\ pc[m] = "done"
            /\ Cardinality(SentFor(m)) = 1
            /\ \A i \in SentFor(m) :
                  /\ sent[i].type = "error"
                  /\ sent[i].content =
                         "Sorry, I encountered an error processing your request."
            /\ promises[m] = [t \in PreWarmTools |-> "absent"]
            /\ \A k \in DOMAIN pendingRequests : pendingRequests[k].preWarmPromises # m
            /\ llm[m].quick = "none"
            /\ turnsRun[m] = 0

\* an invalid message arrived while a chat request was in flight, and that
\* request went on to its detailed response
C23_Witness ==
    /\ req[1].kind = "chat"
    /\ req[2].kind = "invalidJson"
    /\ Len(sent) = 3
    /\ sent[1].msg = 2
    /\ sent[3].msg = 1 /\ sent[3].type = "response" /\ ~sent[3].isQuickResponse

\* ------------------------------------------------------- response quality
\* a fraction lies in [0, 1]
InUnitInterval(f) == f.den > 0 /\ 0 <= f.num /\ f.num <= f.den

\* C24: evaluateResponse never rejects; it returns a score and a confidence
\* in [0, 1] and the level that is the threshold image of the score: at
\* least 0.8 excellent, at least 0.6 good, at least 0.4 fair, below that
\* poor; after an error it returns the default, 0.5 and fair.
C24_QualityInRange ==
    evaluation.state = "done" =>
        LET q == evaluation.quality
        IN /\ evaluation.status = "resolved"
           /\ InUnitInterval(q.score)
           /\ InUnitInterval(q.confidence)
           /\ q.level = (CASE 10 * q.score.num >= 8 * q.score.den -> "excellent"
                           [] 10 * q.score.num < 8 * q.score.den
                              /\ 10 * q.score.num >= 6 * q.score.den -> "good"
                           [] 10 * q.score.num < 6 * q.score.den
                              /\ 10 * q.score.num >= 4 * q.score.den -> "fair"
                           [] OTHER -> "poor")
           /\ evaluation.failed =>
                  (2 * q.score.num = q.score.den /\ q.level = "fair")

\* an evaluation over more than ten feedback entries, all positive, that is
\* excellent with the confidence at its cap
C24_Witness ==
    /\ evaluation.state = "done"
    /\ ~evaluation.failed
    /\ evaluation.feedbackStats.total > 10
    /\ evaluation.quality.level = "excellent"
    /\ evaluation.quality.confidence.num = evaluation.quality.confidence.den

\* ------------------------------------------------------ replies per request
\* the positions in sent of the quick replies and of the terminal messages
\* (detailed response or error) of message m
QuickReplies(m) ==
    {i \in 1..Len(sent) : /\ sent[i].msg = m
                          /\ sent[i].type = "response"
                          /\ sent[i].isQuickResponse}
TerminalMessages(m) ==
    {i \in 1..Len(sent) : /\ sent[i].msg = m
                          /\ \/ sent[i].type = "error"
                             \/ sent[i].type = "response" /\ ~sent[i].isQuickResponse}

\* C25: if every LLM call and tool call returns or fails, every chat message
\* with a content eventually has exactly one quick reply and exactly one
\* terminal message, a detailed response or an error, the quick reply first;
\* at no time has it more than one of either.
C25_OneQuickOneTerminal ==
    /\ [](\A m \in Msgs :
            /\ Cardinality(QuickReplies(m)) <= 1
            /\ Cardinality(TerminalMessages(m)) <= 1
            /\ \A i \in TerminalMessages(m) : \E j \in QuickReplies(m) : j < i)
    /\ \A m \in Msgs :
          (req[m].kind = "chat") ~>
              (Cardinality(QuickReplies(m)) = 1 /\ Cardinality(TerminalMessages(m)) = 1)

\* two chat requests handled concurrently: both quick replies went out
\* before either detailed response
C25_Witness ==
    /\ Len(sent) = 4
    /\ \A m \in Msgs : req[m].kind = "chat" /\ pc[m] = "done"
    /\ sent[1].isQuickResponse /\ sent[2].isQuickResponse
    /\ sent[1].msg # sent[2].msg

\* -------------------------------------------------- reuse of tool results
\* C26: within TTL of a pre-warm tool call that completed without throwing, a
\* further executeToolWithCache for the same tool, query and params returns
\* the result obtained then and does not invoke the tool again, whatever the
\* tool returned, null included.
C26_PreWarmResultReused ==
    [][ \A m, k \in Msgs, t \in PreWarmTools :
          ( /\ PreWarmReturns(m)
            /\ k # m
            /\ req[k].content = req[m].content
            /\ toolOutcome[k][t] = "ok"
            /\ promises'[m][t] # "absent"
            /\ ToolKey(k, t) \in DOMAIN cache
            /\ now - cache[ToolKey(k, t)].timestamp < CACHE_TTL )
          => promises'[m][t] = promises[k][t]
      ]_vars

\* ------------------------------------------------ context of the retry turn
\* C27: in the forced retry turn the UI decision is computed from the
\* original user message, not from the retry instruction text: the retry's
\* result carries a UI component exactly when shouldGenerateUI holds of its
\* tool results and the user's message, so a retry for a message without
\* trigger keywords attaches none.
C27_RetryDecidesOnUserMessage ==
    \A m \in Msgs :
        (pc[m] = "done" /\ turnsRun[m] = 2 /\ llm[m].retry = "ok")
        => ( (llm[m].followUpResult.uiComponent # Undefined)
             <=> shouldGenerateUI(llm[m].followUpResult.toolResults, req[m].content) )

\* ------------------------------------------- what enters the component cache
\* a call with the key of call c that has ended in the fallback, and none
\* that has ended with a generated component
OnlyFallbacksFor(c) ==
    /\ \E d \in Calls \ {c} :
          /\ gen[d].how \in {"timeout", "error"}
          /\ ComponentKey(d) = (ComponentKey(c))'
    /\ \A d \in Calls \ {c} :
          (gen[d].state # "idle" /\ ComponentKey(d) = (ComponentKey(c))')
          => gen[d].how # "generated"

\* C28: only LLM-generated components enter the component cache: every entry
\* is an object generateObject resolved with before the timer fired; a call
\* that ends in the fallback (timeout or error) leaves the cache unchanged; an
\* LLM result arriving after the timeout is discarded and not cached; and the
\* next call with a key for which only fallbacks were returned invokes the
\* LLM again.
C28_OnlyGeneratedCached ==
    [][ /\ \A k \in DOMAIN componentCache' :
              \E r \in returned' : r.component = componentCache'[k]
        /\ \A c \in Calls :
              /\ (gen[c].state = "racing" /\ gen'[c].how \in {"timeout", "error"})
                 => componentCache' = componentCache
              /\ (gen[c].generateObject = "pending"
                  /\ gen'[c].generateObject = "lateResolved")
                 => componentCache' = componentCache
              /\ (gen[c].state = "idle" /\ gen'[c].state # "idle" /\ OnlyFallbacksFor(c))
                 => gen'[c].llmInvoked
      ]_vars

C28_Witness ==
    /\ gen[1].how = "timeout"
    /\ gen[1].generateObject = "lateResolved"
    /\ gen[2].state = "racing"
    /\ ComponentKey(2) = ComponentKey(1)
    /\ componentCache = <<>>

\* ---------------------------------------------------- tracking a tool call
\* the last tracked call was an advanced-token-search whose params carry a
\* chain not yet preferred, a marketcap filter and a sorting field
TrackedAllThree ==
    /\ mcp.lastTracked.toolName = "advanced-token-search"
    /\ mcp.lastTracked.params.filters.chain # Undefined
    /\ ~chainsInclude(mcp.lastTracked.before.userPreference.preferredChains,
                      mcp.lastTracked.params.filters.chain)
    /\ mcp.lastTracked.params.filters.marketcap.present
    /\ mcp.lastTracked.params.sorting.field # Undefined

\* C29: no state update is lost in trackToolUsage: after tracking an
\* advanced-token-search with a new filters.chain, a filters.marketcap and a
\* sorting.field, the state holds the appended tool_call entry and all three
\* preference changes; preferredChains has no duplicates and at most 5
\* chains; conversationHistory has at most 50 entries.
C29_NoUpdateLost ==
    LET history == mcp.state.conversationHistory
        prefs == mcp.state.userPreference
        tracked == mcp.lastTracked
    IN /\ TrackedAllThree =>
             /\ Len(history) > 0
             /\ history[Len(history)] =
                    [type |-> "tool_call", content |-> <<tracked.toolName, tracked.params>>,
                     timestamp |-> tracked.time]
             /\ chainsInclude(prefs.preferredChains, tracked.params.filters.chain)
             /\ prefs.riskTolerance = learnedRiskTolerance(tracked.params.filters.marketcap)
             /\ "preferredSortField" \in DOMAIN prefs
             /\ prefs.preferredSortField = tracked.params.sorting.field
       /\ \A i, j \in 1..Len(prefs.preferredChains) :
             i # j => prefs.preferredChains[i] # prefs.preferredChains[j]
       /\ Len(prefs.preferredChains) <= ChainLimit
       /\ Len(history) <= HistoryLimit

\* ------------------------------------------------------ versions of a prompt
\* C30: for any interleaving of updateTaskPrompt calls on the same prompt
\* name, the stored versions of the name are pairwise distinct and form
\* 1..n, so getTaskPrompt returns the content of the most recently completed
\* update.
C30_VersionsDistinct ==
    /\ \A name \in PromptNames :
          LET rows == rowsOf(task_prompts, name)
          IN /\ \A i, j \in 1..Len(rows) : i # j => rows[i].version # rows[j].version
             /\ {rows[i].version : i \in 1..Len(rows)} = 1..Len(rows)
    /\ upd.got.state = "returned" => upd.got.content = upd.got.latest
====
